---- MODULE Spec2Model ----
(***************************************************************************)
(* amazon-order-scraper: the scrape orchestrator (class Scraper) and the   *)
(* scrape subcommand that drives it.                                        *)
(*                                                                          *)
(* Two builds of the Scraper live in the repository and both are modelled:  *)
(*   build = "dist"  dist/scraper.js (retrying parsePageContent, per-year   *)
(*                   hooks) driven by src/subcommands/scrape.ts;            *)
(*   build = "ts"    src/scraper.ts (no retry, year staleness policy inside *)
(*                   scrapeOrdersForYear's checkCache).                     *)
(* The program is one sequential chain of awaited steps, so the model is a  *)
(* single program counter pc with the frames of scrape(),                   *)
(* scrapeOrdersForYear() and parsePageContent() kept in variables.          *)
(***************************************************************************)
EXTENDS Integers, Sequences, FiniteSets, TLC

(***************************************************************************)
(* Values                                                                   *)
(***************************************************************************)
NoValue == "<undefined>"          \* a cache miss / undefined content
NoURL == "<no-url>"               \* undefined URL (no next page)
NoErr == [kind |-> "none", attempt |-> 0, fromCached |-> FALSE, hasPage |-> FALSE, html |-> NoValue]

User == "default"
CurrentYear == 2
\* Times are kept in seconds: the millisecond values of the source exceed the
\* 32-bit integers of the model checker. Only their order matters.
SecondsPerDay == 24 * 60 * 60
MIN_ORDER_AGE_TO_USE_CACHE == 30 * SecondsPerDay
BackoffStepMs == 300
RetryCeiling == 4
MaxPrompts == 1
MaxCorrupt == 1

(***************************************************************************)
(* URLs                                                                     *)
(***************************************************************************)
ORDERS_URL == "/your-orders/orders"
YearURL(year) == "/your-orders/orders?timeFilter=year-" \o ToString(year)
InvoiceURL(id) == "/gp/css/summary/print.html?orderID=" \o ToString(id)
SignInURL == "/ap/signin"
\* The second order-list page of the oldest year (the href of li.a-last a).
Page2URL == "/your-orders/orders?timeFilter=year-0&startIndex=10"

\* ["v1", "user", user, "url", url].join(":")
cacheKey(url) == "v1:user:" \o User \o ":url:" \o url

(***************************************************************************)
(* The site: what page.content() can hold, named by a string, together     *)
(* with what the scraper's selectors and the invoice parser read from it.  *)
(***************************************************************************)
WallHTML == "html:sign-in"
YearsHTML == "html:orders"
ListHTML(year, page) == "html:list:" \o ToString(year) \o ":" \o ToString(page)
InvoiceHTML(id) == "html:invoice:" \o ToString(id)
\* An invoice page in a layout the parser does not handle (it still shows the
\* order number).
UnparsedInvoiceHTML(id) == "html:invoice-unparsed:" \o ToString(id)

OrderIds == {1, 2, 3, 4, 5}
\* Age of each order of the site at the time of the run: order 1 is one
\* second younger than the threshold, order 2 exactly at it, the others old.
\* Orders 1 and 2 are of the current year, 3 of the year before, 4 and 5 of
\* the year before that.
OrderAge(id) ==
    CASE id = 1 -> MIN_ORDER_AGE_TO_USE_CACHE - 1
      [] id = 2 -> MIN_ORDER_AGE_TO_USE_CACHE
      [] OTHER -> 400 * SecondsPerDay

ListURLs == {YearURL(2), YearURL(1), YearURL(0), Page2URL}
InvoiceURLs == {InvoiceURL(i) : i \in OrderIds}
URLs == {ORDERS_URL} \cup ListURLs \cup InvoiceURLs
Years == {0, 1, 2}
\* The pages an earlier run may have left in the cache: the oldest year has
\* not been scraped before.
SeenURLs == {YearURL(2), YearURL(1), InvoiceURL(1), InvoiceURL(2), InvoiceURL(3)}

\* The page the site serves at a URL when it serves the real thing.
SitePage(url) ==
    CASE url = ORDERS_URL -> YearsHTML
      [] url = YearURL(2) -> ListHTML(2, 1)
      [] url = YearURL(1) -> ListHTML(1, 1)
      [] url = YearURL(0) -> ListHTML(0, 1)
      [] url = Page2URL -> ListHTML(0, 2)
      [] url \in InvoiceURLs -> InvoiceHTML(CHOOSE i \in OrderIds : InvoiceURL(i) = url)
      [] OTHER -> WallHTML

\* select[name="timeFilter"] options, sorted descending; <<>> with hasSelect
\* FALSE when the page has no such control.
scrapeYears(html) ==
    IF html = YearsHTML
    THEN [hasSelect |-> TRUE, years |-> <<2, 1, 0>>]
    ELSE [hasSelect |-> FALSE, years |-> <<>>]

findInvoiceURLs(html) ==
    CASE html = ListHTML(2, 1) -> <<InvoiceURL(1), InvoiceURL(2)>>
      [] html = ListHTML(1, 1) -> <<InvoiceURL(3)>>
      [] html = ListHTML(0, 1) -> <<InvoiceURL(4)>>
      [] html = ListHTML(0, 2) -> <<InvoiceURL(5)>>
      [] OTHER -> <<>>

\* li.a-last a: only the oldest year has a second order-list page.
nextPageLink(html) == IF html = ListHTML(0, 1) THEN Page2URL ELSE NoURL

\* parseInvoiceHTML: ok = FALSE stands for the parser throwing.
parseInvoiceHTML(html) ==
    IF \E i \in OrderIds : html = InvoiceHTML(i)
    THEN LET i == CHOOSE j \in OrderIds : html = InvoiceHTML(j)
         IN [ok |-> TRUE, id |-> i, age |-> OrderAge(i)]
    ELSE [ok |-> FALSE, id |-> 0, age |-> 0]

(***************************************************************************)
(* State                                                                    *)
(***************************************************************************)
VARIABLES
    build,              \* "dist" or "ts": which Scraper is running
    pc,                 \* position of the single thread of control
    cache,              \* DataStore cache table: key -> value or NoValue
    savedOrders,        \* DataStore orders table: ids saved by saveOrder
    \* scrape subcommand (scrape.ts)
    headless,           \* let headless
    scraper,            \* let scraper: [exists, headless, context (#contextPromise
                        \*  is set), browsers (contexts launched and not closed),
                        \*  fetched (withBrowser was called)]
    options,            \* [interactionAllowed, fromYear, toYear,
                        \*  onBeforeYearScrape, onBeforeOrderScrape]
    prompts,            \* number of promptForSignIn calls so far
    cmd,                \* what the run did: [modes of the attempts, scrapers
                        \*  open, fixture saved, outcome]
    \* Scraper.scrape / scrapeOrdersForYear frames
    run,                \* [years, yearIdx, continueScraping, cacheAllowed, year,
                        \*  listURL, invoiceURLs, nextPageURL, orderIdx, ...]
    \* parsePageContent frame
    ppc,
    err,                \* the error a rejected scrape() carries
    \* an OrderBuilder and what its caller last did with it
    builder,
    \* parseInvoiceHTML: the invoices to parse, the parser's position and state
    parser,
    \* a caller of money.ts: an amount text and what was computed from it
    money,
    \* navigatePage: the clock, #lastNavigationAt, page.url() and the last delay
    nav,
    \* the parser engine run over drawn rules: createParser's loop position, current state, and what it called
    engine,
    \* getContentChunks: the document, how far it has been visited and the chunks so far
    tokenizer,
    \* a caller of the DataStore: its calls, what the last returned, and the order tables
    store

vars == <<build, pc, cache, savedOrders, headless, scraper, options, prompts,
          cmd, run, ppc, err, builder, parser, money, nav, engine, tokenizer, store>>
cmdVars == <<headless, options, prompts, cmd>>

NoScraper == [exists |-> FALSE, headless |-> TRUE, context |-> FALSE,
              browsers |-> 0, fetched |-> FALSE]
NoResult == [years |-> <<>>, links |-> <<>>, next |-> NoURL, orderId |-> 0]

IdlePPC ==
    [kind |-> "none", url |-> NoURL, cachedContent |-> NoValue,
     browserAttempts |-> 0, result |-> NoResult,
     \* observations of the current call
     entry |-> NoValue, cachedParseFailed |-> FALSE, fromCache |-> FALSE,
     navs |-> 0, writes |-> 0, delays |-> <<>>, caught |-> "none",
     resolved |-> NoURL,
     \* the pages withBrowser created for the current call that are not closed
     openPages |-> 0]

IdleRun ==
    [years |-> <<>>, yearIdx |-> 0, continueScraping |-> TRUE,
     cacheAllowed |-> TRUE, year |-> 0, listURL |-> NoURL,
     invoiceURLs |-> <<>>, nextPageURL |-> NoURL, orderIdx |-> 0,
     \* observations of the current scrape(): the years the per-year hook was
     \* evaluated for, the URLs acquired so far, the acquisitions unsettled
     hooked |-> <<>>, visited |-> <<>>, inflight |-> {}]

\* What the cache table may hold for a key when the program starts: nothing,
\* the page as the site serves it, or content that no longer parses (written
\* by an earlier version of the parser, or a stored sign-in page).
Keys == {cacheKey(u) : u \in URLs}
KeyURL(key) == CHOOSE u \in URLs : cacheKey(u) = key
CorruptPage(url) ==
    IF url \in InvoiceURLs
    THEN UnparsedInvoiceHTML(CHOOSE i \in OrderIds : InvoiceURL(i) = url)
    ELSE WallHTML
CacheChoice(url, sel) ==
    CASE sel = "absent" -> NoValue
      [] sel = "site" -> SitePage(url)
      [] OTHER -> CorruptPage(url)
\* What a navigation that succeeds may show at a URL.
Served(url) == {SitePage(url), WallHTML, CorruptPage(url)}
InitialCaches(urls) ==
    {[k \in Keys |-> IF KeyURL(k) \in urls
                     THEN CacheChoice(KeyURL(k), sel[KeyURL(k)]) ELSE NoValue] :
        sel \in {f \in [urls -> {"absent", "site", "corrupt"}] :
                    Cardinality({u \in urls : f[u] = "corrupt"}) <= MaxCorrupt}}

(***************************************************************************)
(* DataStore.checkCache / updateCache                                       *)
(***************************************************************************)
\* The cache table has PRIMARY KEY (key, value): INSERT OR REPLACE of another value
\* for a key adds a row and leaves the rows the key has, and
\* SELECT value FROM cache WHERE key = ? read with get() gives the first row the
\* index on (key, value) holds for the key, the one whose text sorts first. No row
\* is ever deleted, so c[key] keeps that first row alone. Whether the text written
\* sorts before the rows of its key is a fact of the pages' bytes: sortsFirst.
datastoreCheckCache(c, key) == c[key]

datastoreUpdateCache(c, key, value, sortsFirst) ==
    [c EXCEPT ![key] = IF @ = NoValue \/ sortsFirst THEN value ELSE @]

(***************************************************************************)
(* The handlers passed to parsePageContent: ok = FALSE stands for a throw   *)
(* of the error kind named.                                                 *)
(***************************************************************************)
Handler(kind, html) ==
    CASE kind = "years" ->
            LET y == scrapeYears(html)
            IN [ok |-> y.hasSelect, errKind |-> "signin",
                result |-> [NoResult EXCEPT !.years = y.years]]
      [] kind = "list" ->
            LET links == findInvoiceURLs(html)
            IN [ok |-> Len(links) # 0, errKind |-> "signin",
                result |-> [NoResult EXCEPT !.links = links, !.next = nextPageLink(html)]]
      [] OTHER ->
            LET o == parseInvoiceHTML(html)
            IN [ok |-> o.ok, errKind |-> "parse",
                result |-> [NoResult EXCEPT !.orderId = o.id]]

\* DataStore.saveOrder, called by the invoice handler once the parse succeeded.
SaveOrder(kind, html, saved) ==
    IF kind = "invoice" /\ parseInvoiceHTML(html).ok
    THEN saved \cup {parseInvoiceHTML(html).id}
    ELSE saved


(***************************************************************************)
(* The checkCache / updateCache closures handed to parsePageContent.        *)
(* A closure's result is [value, threw]: threw stands for the closure       *)
(* rejecting, which parsePageContent does not catch.                        *)
(***************************************************************************)
Hit(value) == [value |-> value, threw |-> FALSE]
Miss == [value |-> NoValue, threw |-> FALSE]
Threw(value) == [value |-> value, threw |-> TRUE]

\* getYears' expected years; in January the previous year is expected too,
\* which the site's year list always holds.
ExpectedYears == {CurrentYear}

getYearsCheckCacheTs(c, key) ==
    LET content == datastoreCheckCache(c, key)
        y == scrapeYears(content)
    IN IF content = NoValue THEN Miss
       ELSE IF ~y.hasSelect THEN Miss
       ELSE IF ~(\A e \in ExpectedYears : \E i \in 1..Len(y.years) : y.years[i] = e) THEN Miss
       ELSE Hit(content)

getYearsCheckCacheDist(c, key) == Miss

RECURSIVE allInvoiceURLsCachedFrom(_, _, _, _)
allInvoiceURLsCachedFrom(c, invoiceURLs, i, result) ==
    IF i > Len(invoiceURLs) THEN result
    ELSE allInvoiceURLsCachedFrom(c, invoiceURLs, i + 1,
            IF ~result THEN FALSE
            ELSE datastoreCheckCache(c, cacheKey(invoiceURLs[i])) # NoValue)

\* A faulty variant of allInvoiceURLsCached: the reduce forgets the earlier
\* links' results and answers for the last link alone.
allInvoiceURLsCachedLastOnly(c, invoiceURLs) ==
    \/ Len(invoiceURLs) = 0
    \/ datastoreCheckCache(c, cacheKey(invoiceURLs[Len(invoiceURLs)])) # NoValue
allInvoiceURLsCached(c, invoiceURLs) == allInvoiceURLsCachedFrom(c, invoiceURLs, 1, TRUE)

\* A faulty variant of IsPriorYear: the comparison inverted.
IsPriorYearInverted(year) == year > CurrentYear
IsPriorYear(year) == year < CurrentYear

yearCheckCacheTs(c, key, year) ==
    LET value == datastoreCheckCache(c, key)
    IN IF value = NoValue THEN Miss
       ELSE IF IsPriorYear(year) THEN Hit(value)
       ELSE IF allInvoiceURLsCached(c, findInvoiceURLs(value)) THEN Hit(value)
       ELSE Miss

yearCheckCacheDist(c, key, cacheAllowed) ==
    IF ~cacheAllowed THEN Miss
    ELSE LET value == datastoreCheckCache(c, key)
         IN IF value = NoValue THEN Miss ELSE Hit(value)

\* A faulty variant of TooRecentToUseCache: the comparison inverted.
TooRecentToUseCacheInverted(age) == age > MIN_ORDER_AGE_TO_USE_CACHE
TooRecentToUseCache(age) == age < MIN_ORDER_AGE_TO_USE_CACHE

orderCheckCache(c, key) ==
    LET value == datastoreCheckCache(c, key)
        order == parseInvoiceHTML(value)
    IN IF value = NoValue THEN Miss
       ELSE IF ~order.ok THEN Threw(value)
       ELSE IF TooRecentToUseCache(order.age) THEN Miss
       ELSE Hit(value)

checkCache(b, kind, c, key, r) ==
    CASE kind = "years" ->
            IF b = "ts" THEN getYearsCheckCacheTs(c, key) ELSE getYearsCheckCacheDist(c, key)
      [] kind = "list" ->
            IF b = "ts" THEN yearCheckCacheTs(c, key, r.year)
            ELSE yearCheckCacheDist(c, key, r.cacheAllowed)
      [] OTHER -> orderCheckCache(c, key)

\* updateCache closures: [cache, wrote, threw].
orderUpdateCache(c, key, value, sortsFirst) ==
    IF ~parseInvoiceHTML(value).ok
    THEN [cache |-> c, wrote |-> FALSE, threw |-> TRUE]
    ELSE [cache |-> datastoreUpdateCache(c, key, value, sortsFirst), wrote |-> TRUE, threw |-> FALSE]

yearUpdateCache(c, key, value, sortsFirst) ==
    [cache |-> datastoreUpdateCache(c, key, value, sortsFirst), wrote |-> TRUE, threw |-> FALSE]

getYearsUpdateCache(b, c, key, value, sortsFirst) ==
    IF b = "ts"
    THEN [cache |-> datastoreUpdateCache(c, key, value, sortsFirst), wrote |-> TRUE, threw |-> FALSE]
    ELSE [cache |-> c, wrote |-> FALSE, threw |-> FALSE]

updateCache(b, kind, c, key, value, sortsFirst) ==
    CASE kind = "years" -> getYearsUpdateCache(b, c, key, value, sortsFirst)
      [] kind = "list" -> yearUpdateCache(c, key, value, sortsFirst)
      [] OTHER -> orderUpdateCache(c, key, value, sortsFirst)

(***************************************************************************)
(* parsePageContent                                                         *)
(***************************************************************************)
\* A faulty variant of URLUnchanged: the comparison dropped.
URLUnchangedAlways(url, actualURL) == TRUE
URLUnchanged(url, actualURL) == url = actualURL

\* A faulty variant of doParse: the write-back does not wait for the handler.
doParseUnchecked(b, kind, url, actualURL, rawContent, shouldUpdateCache, c, sortsFirst) ==
    LET h == Handler(kind, rawContent)
        u == updateCache(b, kind, c, cacheKey(actualURL), rawContent, sortsFirst)
    IN IF shouldUpdateCache /\ ~u.threw
       THEN [ok |-> TRUE, errKind |-> "none", result |-> h.result, cache |-> u.cache, wrote |-> u.wrote]
       ELSE [ok |-> TRUE, errKind |-> "none", result |-> h.result, cache |-> c, wrote |-> FALSE]
\* doParse(url, rawContent, shouldUpdateCache): the handler's verdict, and the
\* cache after the conditional write-back.
doParse(b, kind, url, actualURL, rawContent, shouldUpdateCache, c, sortsFirst) ==
    LET h == Handler(kind, rawContent)
        u == updateCache(b, kind, c, cacheKey(actualURL), rawContent, sortsFirst)
    IN IF ~h.ok
       THEN [ok |-> FALSE, errKind |-> h.errKind, result |-> NoResult, cache |-> c, wrote |-> FALSE]
       ELSE IF ~shouldUpdateCache
       THEN [ok |-> TRUE, errKind |-> "none", result |-> h.result, cache |-> c, wrote |-> FALSE]
       ELSE IF URLUnchanged(url, actualURL)
       THEN IF u.threw
            THEN [ok |-> FALSE, errKind |-> "parse", result |-> NoResult, cache |-> c, wrote |-> FALSE]
            ELSE [ok |-> TRUE, errKind |-> "none", result |-> h.result, cache |-> u.cache, wrote |-> u.wrote]
       ELSE [ok |-> TRUE, errKind |-> "none", result |-> h.result, cache |-> c, wrote |-> FALSE]

\* The flag doParse is given for cached content, and for fetched content.
\* A faulty variant of ShouldUpdateCacheForCached.
ShouldUpdateCacheForCachedTrue == TRUE
ShouldUpdateCacheForCached == FALSE
ShouldUpdateCacheForFetched == TRUE

BackoffDelay(browserAttempts) == browserAttempts * BackoffStepMs
\* A faulty variant of GivesUp: one attempt too many.
GivesUpLate(browserAttempts) == browserAttempts > RetryCeiling + 1
GivesUp(browserAttempts) == browserAttempts > RetryCeiling

\* withBrowser(url, func) with no page given: context.newPage(), and in
\* `finally` pageToUse.close() unless the error thrown carries that page.
shouldCleanUpPage(e) == ~e.hasPage
withBrowser(openPages, e) == IF shouldCleanUpPage(e) THEN openPages ELSE openPages + 1

\* A faulty variant of contextGetter: a context launched at every use.
contextGetterRelaunches(s) == [s EXCEPT !.context = TRUE, !.browsers = @ + 1]
\* get context(): this.#contextPromise = this.#contextPromise ?? launch(...)
contextGetter(s) ==
    IF s.context THEN s ELSE [s EXCEPT !.context = TRUE, !.browsers = @ + 1]

\* close(): the context promise is forgotten, and its context and browser
\* closed.
close(s) ==
    IF s.context THEN [s EXCEPT !.context = FALSE, !.browsers = @ - 1] ELSE s

MkErr(kind, attempt, fromCached, hasPage, html) ==
    [kind |-> kind, attempt |-> attempt, fromCached |-> fromCached,
     hasPage |-> hasPage, html |-> html]

CallParsePageContent(kind, url) == [IdlePPC EXCEPT !.kind = kind, !.url = url]

\* const cacheKey = ...; let content = await checkCache(cacheKey)
PPCheckCache ==
    /\ pc = "ppc_check"
    /\ LET key == cacheKey(ppc.url)
           r == checkCache(build, ppc.kind, cache, key, run)
           entry == datastoreCheckCache(cache, key)
       IN IF r.threw
          THEN /\ pc' = "scrape_settled"
               /\ err' = MkErr(IF build = "dist" THEN "parse" ELSE "raw", 0, TRUE, FALSE, r.value)
               /\ ppc' = [ppc EXCEPT !.entry = entry, !.cachedParseFailed = TRUE]
          ELSE /\ pc' = "ppc_loop"
               /\ err' = err
               /\ ppc' = [ppc EXCEPT !.entry = entry, !.cachedContent = r.value]
    /\ UNCHANGED <<nav, money, parser, builder, build, cache, savedOrders, scraper, run, cmdVars, engine, tokenizer, store>>

\* while (true) { if (cachedContent != null) { try { return await doParse(url, cachedContent, false) } catch ... } }
PPParseCached ==
    /\ pc = "ppc_loop"
    /\ ppc.cachedContent # NoValue
    /\ LET d == doParse(build, ppc.kind, ppc.url, ppc.url, ppc.cachedContent,
                        ShouldUpdateCacheForCached, cache, TRUE)
       IN IF d.ok
          THEN /\ pc' = "ppc_return"
               /\ cache' = d.cache
               /\ savedOrders' = SaveOrder(ppc.kind, ppc.cachedContent, savedOrders)
               /\ ppc' = [ppc EXCEPT !.result = d.result, !.fromCache = TRUE,
                                     !.writes = @ + (IF d.wrote THEN 1 ELSE 0)]
          ELSE /\ pc' = "ppc_loop"
               /\ cache' = cache
               /\ savedOrders' = savedOrders
               /\ ppc' = [ppc EXCEPT !.cachedContent = NoValue, !.cachedParseFailed = TRUE]
    /\ UNCHANGED <<nav, money, parser, builder, build, scraper, run, err, cmdVars, engine, tokenizer, store>>

\* if (browserAttempts > 0) await setTimeout(browserAttempts * 300)
PPBackoff ==
    /\ pc = "ppc_loop"
    /\ ppc.cachedContent = NoValue
    /\ ppc.browserAttempts > 0
    /\ pc' = "ppc_fetch"
    /\ ppc' = [ppc EXCEPT !.delays = Append(@, BackoffDelay(ppc.browserAttempts))]
    /\ UNCHANGED <<nav, money, parser, builder, build, cache, savedOrders, scraper, run, err, cmdVars, engine, tokenizer, store>>

\* browserAttempts++; withBrowser(url, page => doParse(new URL(page.url()),
\* await page.content(), true, page)): a page is opened in the (lazily
\* launched) context, navigated, read, parsed, and closed unless the error
\* carries it. The "ts" build has no counter and no catch: a failure rejects.
PPFetch ==
    /\ \/ pc = "ppc_fetch"
       \/ pc = "ppc_loop" /\ ppc.cachedContent = NoValue /\ ppc.browserAttempts = 0
    /\ \E reached \in BOOLEAN, resolved \in {ppc.url, SignInURL}, html \in Served(ppc.url),
          sortsFirst \in BOOLEAN :
         LET attempt == IF build = "ts" THEN 0 ELSE ppc.browserAttempts + 1
             d == doParse(build, ppc.kind, resolved, ppc.url, html,
                          ShouldUpdateCacheForFetched, cache, sortsFirst)
             e == IF ~reached
                  THEN MkErr("nav", attempt, FALSE, FALSE, NoValue)
                  ELSE MkErr(d.errKind, attempt, FALSE, d.errKind = "signin", html)
             p == [ppc EXCEPT !.browserAttempts = attempt, !.navs = @ + 1,
                              !.openPages = withBrowser(@, e)]
         IN /\ scraper' = [contextGetter(scraper) EXCEPT !.fetched = TRUE]
            /\ IF reached /\ d.ok
               THEN /\ pc' = "ppc_return"
                    /\ cache' = d.cache
                    /\ savedOrders' = SaveOrder(ppc.kind, html, savedOrders)
                    /\ ppc' = [p EXCEPT !.result = d.result, !.resolved = resolved,
                                        !.writes = @ + (IF d.wrote THEN 1 ELSE 0)]
                    /\ err' = err
               ELSE /\ cache' = cache
                    /\ savedOrders' = savedOrders
                    /\ IF build = "ts" \/ GivesUp(attempt)
                       THEN /\ pc' = "scrape_settled"
                            /\ err' = e
                            /\ ppc' = p
                       ELSE /\ pc' = "ppc_loop"
                            /\ err' = err
                            /\ ppc' = [p EXCEPT !.caught = e.kind]
    /\ UNCHANGED <<nav, money, parser, builder, build, run, cmdVars, engine, tokenizer, store>>

(***************************************************************************)
(* Scraper.scrape, scrapeOrdersForYear, scrapeOrder                         *)
(***************************************************************************)
\* The per-year hook the scrape subcommand installs (scrape.ts), for the
\* years --from and --to fall in.
onBeforeYearScrape(fromYear, toYear, year) ==
    IF year > toYear THEN "STOP_SCRAPING"
    ELSE IF year < fromYear THEN "SKIP_YEAR"
    ELSE IF year = CurrentYear THEN "SCRAPE_YEAR_NO_CACHE"
    ELSE "SCRAPE_YEAR"

\* The year an order is dated in.
OrderYear(id) == CASE id \in {1, 2} -> 2 [] id = 3 -> 1 [] OTHER -> 0

\* The per-order hook the scrape subcommand installs (scrape.ts); its set
\* scrapedOrderIDs stays empty, createScraper replacing the onOrderScraped
\* that would fill it. Dates are compared by their year.
onBeforeOrderScrape(fromYear, toYear, id) ==
    IF OrderYear(id) > toYear THEN "STOP_SCRAPING"
    ELSE IF OrderYear(id) < fromYear THEN "SKIP_ORDER"
    ELSE "SCRAPE_ORDER"

\* A faulty variant of YearAction: STOP_SCRAPING taken for SKIP_YEAR.
YearActionStopSkips(opts, year) ==
    CASE opts.onBeforeYearScrape[year] = NoValue -> "SCRAPE"
      [] opts.onBeforeYearScrape[year] = "STOP_SCRAPING" -> "SKIP_YEAR"
      [] OTHER -> opts.onBeforeYearScrape[year]
\* this.#options.onBeforeYearScrape(year) ?? "SCRAPE"
YearAction(opts, year) ==
    IF opts.onBeforeYearScrape[year] = NoValue THEN "SCRAPE"
    ELSE opts.onBeforeYearScrape[year]

\* An acquisition (parsePageContent call) begins; it has settled when the
\* await on it returns.
BeginAcquisition(r, url) ==
    [r EXCEPT !.visited = Append(@, url), !.inflight = @ \cup {url}]
\* A faulty variant of EndAcquisition: the caller goes on without the await.
EndAcquisitionNotAwaited(r, url) == r
EndAcquisition(r, url) == [r EXCEPT !.inflight = @ \ {url}]

\* scrape(): const years = await this.getYears(page)
ScrapeStart ==
    /\ pc = "scrape_start"
    /\ pc' = "ppc_check"
    /\ ppc' = CallParsePageContent("years", ORDERS_URL)
    /\ run' = BeginAcquisition(IdleRun, ORDERS_URL)
    /\ err' = NoErr
    /\ UNCHANGED <<nav, money, parser, builder, build, cache, savedOrders, scraper, cmdVars, engine, tokenizer, store>>

GotYears ==
    /\ pc = "ppc_return"
    /\ ppc.kind = "years"
    /\ pc' = "year_next"
    /\ run' = [EndAcquisition(run, ppc.url) EXCEPT !.years = ppc.result.years, !.yearIdx = 1]
    /\ ppc' = IdlePPC
    /\ UNCHANGED <<nav, money, parser, builder, build, cache, savedOrders, scraper, err, cmdVars, engine, tokenizer, store>>

StartYear(r, year, cacheAllowed) ==
    [r EXCEPT !.year = year, !.cacheAllowed = cacheAllowed,
              !.listURL = YearURL(year), !.invoiceURLs = <<>>,
              !.nextPageURL = NoURL, !.orderIdx = 0]

\* One link of the years.reduce(...) chain.
YearNext ==
    /\ pc = "year_next"
    /\ IF run.yearIdx > Len(run.years)
       THEN /\ pc' = "scrape_settled"
            /\ err' = NoErr
            /\ run' = run
       ELSE LET year == run.years[run.yearIdx]
                action == YearAction(options, year)
                asked == [run EXCEPT !.hooked = Append(@, year)]
                skip == [asked EXCEPT !.yearIdx = @ + 1]
            IN IF build = "ts"
               THEN /\ pc' = "page_next"
                    /\ run' = StartYear(run, year, TRUE)
                    /\ err' = err
               ELSE IF ~run.continueScraping
               THEN /\ pc' = "year_next"
                    /\ run' = [run EXCEPT !.yearIdx = @ + 1]
                    /\ err' = err
               ELSE CASE action = "STOP_SCRAPING" ->
                            /\ pc' = "year_next"
                            /\ run' = [skip EXCEPT !.continueScraping = FALSE]
                            /\ err' = err
                      [] action = "SKIP_YEAR" ->
                            /\ pc' = "year_next"
                            /\ run' = skip
                            /\ err' = err
                      [] action = "SCRAPE_YEAR" ->
                            /\ pc' = "page_next"
                            /\ run' = StartYear(asked, year, TRUE)
                            /\ err' = err
                      [] action = "SCRAPE_YEAR_NO_CACHE" ->
                            /\ pc' = "page_next"
                            /\ run' = StartYear(asked, year, FALSE)
                            /\ err' = err
                      [] OTHER ->
                            /\ pc' = "scrape_settled"
                            /\ run' = asked
                            /\ err' = MkErr("unknown-action", 0, FALSE, FALSE, NoValue)
    /\ UNCHANGED <<nav, money, parser, builder, build, cache, savedOrders, scraper, ppc, cmdVars, engine, tokenizer, store>>

\* while (url != null) { ... await this.parsePageContent({url, ...}) ... }
PageNext ==
    /\ pc = "page_next"
    /\ IF run.listURL = NoURL
       THEN /\ pc' = "year_next"
            /\ run' = [run EXCEPT !.yearIdx = @ + 1]
            /\ ppc' = ppc
       ELSE /\ pc' = "ppc_check"
            /\ run' = BeginAcquisition(run, run.listURL)
            /\ ppc' = CallParsePageContent("list", run.listURL)
    /\ UNCHANGED <<nav, money, parser, builder, build, cache, savedOrders, scraper, err, cmdVars, engine, tokenizer, store>>

GotPage ==
    /\ pc = "ppc_return"
    /\ ppc.kind = "list"
    /\ pc' = "order_next"
    /\ run' = [EndAcquisition(run, ppc.url) EXCEPT
                    !.invoiceURLs = ppc.result.links,
                    !.nextPageURL = ppc.result.next, !.orderIdx = 1]
    /\ ppc' = IdlePPC
    /\ UNCHANGED <<nav, money, parser, builder, build, cache, savedOrders, scraper, err, cmdVars, engine, tokenizer, store>>

\* A faulty variant of CurrentInvoiceURL: the links taken from the last.
CurrentInvoiceURLReversed(r) == r.invoiceURLs[Len(r.invoiceURLs) - r.orderIdx + 1]
\* The invoice URL the reduce over invoiceURLs has come to.
CurrentInvoiceURL(r) == r.invoiceURLs[r.orderIdx]

\* One link of the invoiceURLs.reduce(...) chain, then url = nextPageURL.
OrderNext ==
    /\ pc = "order_next"
    /\ IF run.orderIdx > Len(run.invoiceURLs)
       THEN /\ pc' = "page_next"
            /\ run' = [run EXCEPT !.listURL = run.nextPageURL]
            /\ ppc' = ppc
       ELSE /\ pc' = "ppc_check"
            /\ run' = BeginAcquisition(run, CurrentInvoiceURL(run))
            /\ ppc' = CallParsePageContent("invoice", CurrentInvoiceURL(run))
    /\ UNCHANGED <<nav, money, parser, builder, build, cache, savedOrders, scraper, err, cmdVars, engine, tokenizer, store>>

\* scrapeOrder resolved: this.onOrderScraped(order); allOrders.push(order)
GotOrder ==
    /\ pc = "ppc_return"
    /\ ppc.kind = "invoice"
    /\ pc' = "order_next"
    /\ run' = [EndAcquisition(run, ppc.url) EXCEPT !.orderIdx = @ + 1]
    /\ ppc' = IdlePPC
    /\ UNCHANGED <<nav, money, parser, builder, build, cache, savedOrders, scraper, err, cmdVars, engine, tokenizer, store>>

(***************************************************************************)
(* The scrape subcommand (scrape.ts)                                        *)
(***************************************************************************)
Mode(isHeadless) == IF isHeadless THEN "headless" ELSE "interactive"

createScraper(isHeadless) ==
    [exists |-> TRUE, headless |-> isHeadless, context |-> FALSE,
     browsers |-> 0, fetched |-> FALSE]

\* closeScraper(): the set of scrapers left open after it.
\* A faulty variant of closeScraper: the scraper is dropped without close().
closeScraperForgets(s, open) == open
closeScraper(s, open) == IF s.exists THEN open \ {Mode(s.headless)} ELSE open

\* saveFixtureHTML needs an order number in the page.
HasOrderID(html) == \E i \in OrderIds : html \in {InvoiceHTML(i), UnparsedInvoiceHTML(i)}

\* saveFixtureHTML: the fixture written, or NoValue when it throws (no order
\* number in the page, or pii_tokens.json / the fixtures directory fail).
saveFixtureHTML(html, fsOK) == IF HasOrderID(html) /\ fsOK THEN html ELSE NoValue

\* A faulty variant of InteractionForbidden: --no-interaction ignored.
InteractionNeverForbidden(opts) == FALSE
\* if (!options.interactionAllowed) throw ...
InteractionForbidden(opts) == ~opts.interactionAllowed

\* scraper = scraper ?? createScraper({headless, ...}); attemptScrape(scraper)
CmdAttempt ==
    /\ pc = "cmd_loop"
    /\ LET s == IF scraper.exists THEN scraper ELSE createScraper(headless)
       IN /\ scraper' = s
          /\ cmd' = [cmd EXCEPT !.modes = Append(@, Mode(s.headless)),
                                !.open = @ \cup {Mode(s.headless)}]
    /\ pc' = "scrape_start"
    /\ UNCHANGED <<nav, money, parser, builder, build, cache, savedOrders, headless, options, prompts, run, ppc, err, engine, tokenizer, store>>

\* The rest of the loop body, once attemptScrape has settled.
CmdResult ==
    /\ pc = "scrape_settled"
    /\ \E fsOK \in BOOLEAN :
        LET closed == [cmd EXCEPT !.open = closeScraper(scraper, @)]
        IN CASE err.kind = "none" ->
                  \* return; finally closeScraper()
                  /\ pc' = "cmd_done"
                  /\ scraper' = NoScraper
                  /\ cmd' = [closed EXCEPT !.outcome = "complete"]
                  /\ UNCHANGED <<headless, engine, tokenizer, store>>
             [] err.kind \notin {"none", "signin", "parse"} ->
                  \* attemptScrape rethrows; finally closeScraper()
                  /\ pc' = "cmd_failed"
                  /\ scraper' = NoScraper
                  /\ cmd' = [closed EXCEPT !.outcome = err.kind]
                  /\ UNCHANGED <<headless, engine, tokenizer, store>>
             [] err.kind \in {"signin", "parse"} /\ headless ->
                  /\ pc' = "cmd_loop"
                  /\ scraper' = NoScraper
                  /\ headless' = FALSE
                  /\ cmd' = closed
             [] err.kind = "parse" /\ ~headless ->
                  /\ pc' = "cmd_failed"
                  /\ scraper' = NoScraper
                  /\ cmd' = [closed EXCEPT
                               !.outcome = IF saveFixtureHTML(err.html, fsOK) = NoValue
                                           THEN "fixture-error" ELSE "parse",
                               !.fixture = saveFixtureHTML(err.html, fsOK)]
                  /\ UNCHANGED <<headless, engine, tokenizer, store>>
             [] err.kind = "signin" /\ ~headless /\ InteractionForbidden(options) ->
                  /\ pc' = "cmd_failed"
                  /\ scraper' = NoScraper
                  /\ cmd' = [closed EXCEPT !.outcome = "no-interaction"]
                  /\ UNCHANGED <<headless, engine, tokenizer, store>>
             [] OTHER ->
                  /\ pc' = "cmd_prompt"
                  /\ UNCHANGED <<scraper, cmd, headless, engine, tokenizer, store>>
    /\ UNCHANGED <<nav, money, parser, builder, build, cache, savedOrders, options, prompts, run, ppc, err, engine, tokenizer, store>>

\* promptForSignIn: the user presses Enter; continue.
CmdPromptAnswered ==
    /\ pc = "cmd_prompt"
    /\ prompts < MaxPrompts
    /\ prompts' = prompts + 1
    /\ pc' = "cmd_loop"
    /\ UNCHANGED <<nav, money, parser, builder, build, cache, savedOrders, headless, scraper, options, cmd, run, ppc, err, engine, tokenizer, store>>

(***************************************************************************)
(* Monetary amounts (money.ts). An amount text is read character by        *)
(* character.                                                               *)
(***************************************************************************)
RECURSIVE Join(_)
Join(cs) == IF cs = <<>> THEN "" ELSE cs[1] \o Join(Tail(cs))

\* The amount texts a caller of money.ts is given here and the texts
\* formatMonetaryAmount makes of them, each with its characters.
Signs == {<<>>, <<"-">>}
Currencies == {<<>>, <<"$">>}
Undefined == <<"u", "n", "d", "e", "f", "i", "n", "e", "d">>
InputWholes == {<<"0">>, <<"1">>, <<"1", "0">>, <<"1", ",", "2", "3", "4">>}
InputFractions == {<<>>, <<".", "0", "0">>, <<".", "5", "0">>, <<".", "5", "4">>}
InputChars ==
    {sign \o cur \o whole \o fraction :
        sign \in Signs, cur \in Currencies, whole \in InputWholes,
        fraction \in InputFractions}
FormattedChars ==
    {prefix \o sign \o whole \o fraction :
        prefix \in {<<"$">>, Undefined}, sign \in Signs,
        whole \in {<<"0">>, <<"1">>, <<"2">>, <<"1", "0">>, <<"1", "1">>,
                   <<"1", "2", "3", "4">>, <<"1", "2", "3", "5">>},
        fraction \in {<<".", "0", "0">>, <<".", "5", "0">>, <<".", "5", "4">>,
                      <<".", "4", "6">>}}
MoneyTexts == {<<Join(cs), cs>> : cs \in InputChars \cup FormattedChars}
\* The characters of one of these texts.
TextChars(text) == (CHOOSE p \in MoneyTexts : p[1] = text)[2]

Chars(text) ==
    CASE text = "$1.00" -> <<"$", "1", ".", "0", "0">>
      [] text = "1.00" -> <<"1", ".", "0", "0">>
      [] text = "$2.50" -> <<"$", "2", ".", "5", "0">>
      [] text = "$0.00" -> <<"$", "0", ".", "0", "0">>
      [] text = "1998-11-05" -> <<"1", "9", "9", "8", "-", "1", "1", "-", "0", "5">>
      [] text = "Nov 5" -> <<"N", "o", "v", " ", "5">>
      [] text = "$8.00" -> <<"$", "8", ".", "0", "0">>
      [] text = "$77.15" -> <<"$", "7", "7", ".", "1", "5">>
      [] text = "$11.55" -> <<"$", "1", "1", ".", "5", "5">>
      [] text = "$7.63" -> <<"$", "7", ".", "6", "3">>
      [] text = "$96.33" -> <<"$", "9", "6", ".", "3", "3">>
      [] text = "$16.98" -> <<"$", "1", "6", ".", "9", "8">>
      [] text = "$1.48" -> <<"$", "1", ".", "4", "8">>
      [] text = "$18.46" -> <<"$", "1", "8", ".", "4", "6">>
      [] text = "2017-01-04" -> <<"2", "0", "1", "7", "-", "0", "1", "-", "0", "4">>
      [] text = "002-7394758-9918293" -> <<"0", "0", "2", "-", "7", "3", "9", "4", "7", "5", "8", "-", "9", "9", "1", "8", "2", "9", "3">>
      [] text = "107-9993388-1117733" -> <<"1", "0", "7", "-", "9", "9", "9", "3", "3", "8", "8", "-", "1", "1", "1", "7", "7", "3", "3">>
      [] text = "1 of: " -> <<"1", " ", "o", "f", ":", " ">>
      [] OTHER -> <<>>

DigitValue(c) ==
    CASE c = "0" -> 0 [] c = "1" -> 1 [] c = "2" -> 2 [] c = "3" -> 3 [] c = "4" -> 4
      [] c = "5" -> 5 [] c = "6" -> 6 [] c = "7" -> 7 [] c = "8" -> 8 [] OTHER -> 9
IsDigit(c) == c \in {"0", "1", "2", "3", "4", "5", "6", "7", "8", "9"}

\* parseInt(part, 10) of a part made of an optional "-" and digits; the map()
\* gives 0 for "".
RECURSIVE parseIntFrom(_, _, _)
parseIntFrom(part, i, acc) ==
    IF i > Len(part) \/ ~IsDigit(part[i]) THEN acc
    ELSE parseIntFrom(part, i + 1, acc * 10 + DigitValue(part[i]))

parseInt(part) ==
    IF part # <<>> /\ part[1] = "-" THEN 0 - parseIntFrom(part, 2, 0)
    ELSE parseIntFrom(part, 1, 0)

\* .replace(/[\$,]/g, "").split("."): the parts before and after each ".".
StripSymbols(cs) == SelectSeq(cs, LAMBDA c : c \notin {"$", ","})
RECURSIVE SplitDots(_, _, _)
SplitDots(cs, i, part) ==
    IF i > Len(cs) THEN <<part>>
    ELSE IF cs[i] = "." THEN <<part>> \o SplitDots(cs, i + 1, <<>>)
    ELSE SplitDots(cs, i + 1, Append(part, cs[i]))

\* parseInt(part, 10) is NaN for a part that does not begin with a digit
\* (after a "-"); `parts[1] || 0` makes 0 of a NaN fraction.
NotANumber(part) ==
    LET digits == IF part # <<>> /\ part[1] = "-" THEN Tail(part) ELSE part
    IN digits = <<>> \/ ~IsDigit(digits[1])

\* parseMonetaryAmount(amount) of a text with the characters cs; `cents` is
\* meaningful where `nan` is FALSE.
parseMonetaryAmountOf(cs, text) ==
    LET parts == SplitDots(StripSymbols(cs), 1, <<>>)
    IN [threw |-> Len(parts) > 2,
        nan |-> parts[1] # <<>> /\ NotANumber(parts[1]),
        currency |-> IF \E i \in 1..Len(cs) : cs[i] = "$" THEN <<"$">> ELSE <<>>,
        value |-> text,
        cents |-> parseInt(parts[1]) * 100
                    + (IF Len(parts) >= 2 THEN parseInt(parts[2]) ELSE 0)
                        * (IF parseInt(parts[1]) < 0 THEN -1 ELSE 1)]

parseMonetaryAmount(text) == parseMonetaryAmountOf(Chars(text), text)

formatMonetaryAmount(currency, cents) ==
    LET whole == cents \div 100
        fraction == cents - whole * 100
    IN (IF currency = <<>> THEN "undefined" ELSE currency[1]) \o ToString(whole) \o "."
         \o (IF fraction < 10 THEN "0" ELSE "") \o ToString(fraction)

(***************************************************************************)
(* OrderBuilder (order-builder.js). A field is <<>> while it is null or     *)
(* undefined and <<v>> once it holds v.                                     *)
(***************************************************************************)
Unset == <<>>
OrderFields == {"id", "currency", "date", "shippingCost", "shippingCostCents",
                "subtotal", "subtotalCents", "tax", "taxCents", "total", "totalCents"}
ItemFields == {"name", "price", "priceCents", "quantity"}
AddressFields == {"name", "address", "city", "state", "zip", "country"}
Attributes == {"id", "currency", "date", "shippingCost", "subtotal", "tax", "total",
               "itemName", "itemQuantity", "itemPrice", "shippingAddress.city",
               "shippingDate", "paymentAmount", "shippingAddress.name",
               "shippingAddress.address", "shippingAddress.state", "shippingAddress.zip",
               "shippingAddress.country"}
NewItem == [f \in ItemFields |-> Unset]
NewShipment == [items |-> <<>>, shippingAddress |-> [f \in AddressFields |-> Unset],
                date |-> Unset]
NoCall == [setter |-> "none", arg |-> "", before |-> Unset, threw |-> FALSE,
           changed |-> FALSE, overwrote |-> FALSE,
           notified |-> 0]

NewBuilder ==
    [order |-> [f \in OrderFields |-> Unset],
     payments |-> <<>>,
     shipments |-> <<>>,
     inferTaxes |-> FALSE,
     shouldAdjustTotalBasedOnGiftCards |-> FALSE,
     assumePaymentCoversFullAmount |-> FALSE,
     lastShipmentFinalized |-> FALSE,
     lastItemFinalized |-> FALSE,
     shippingAddressRequired |-> TRUE,
     captured |-> [a \in Attributes |-> 0],     \* onAttributeCaptured calls
     error |-> Unset,                           \* message of the Error thrown
     built |-> Unset,                           \* the Order build() returned
     calls |-> 0,                               \* calls the caller below has made
     last |-> NoCall,
     sinceCreated |-> <<>>,                     \* calls made since a shipment was last created
     createdAfter |-> <<>>]                     \* per shipment, the calls that preceded its creation

Throw(b, message) == [b EXCEPT !.error = <<message>>]
onAttributeCaptured(b, attr) == [b EXCEPT !.captured[attr] = @ + 1]

\* a builder that opens a new shipment for every call that targets one
ensureShipmentAlways(b) ==
    [b EXCEPT !.shipments = Append(@, NewShipment), !.lastShipmentFinalized = FALSE]

ensureShipment(b) ==
    IF Len(b.shipments) = 0 \/ b.lastShipmentFinalized
    THEN [b EXCEPT !.shipments = Append(@, NewShipment), !.lastShipmentFinalized = FALSE]
    ELSE b

ensureShipmentItem(b) ==
    LET b1 == ensureShipment(b)
        s == Len(b1.shipments)
    IN IF Len(b1.shipments[s].items) = 0 \/ b1.lastItemFinalized
       THEN [b1 EXCEPT !.shipments[s].items = Append(@, NewItem),
                       !.lastItemFinalized = FALSE]
       ELSE b1

\* The shipment and the item the next shipment or item setter writes to.
LastShipment(b) == b.shipments[Len(b.shipments)]
LastItem(b) == LastShipment(b).items[Len(LastShipment(b).items)]

addCashPayment(b) ==
    [b EXCEPT !.payments = Append(@, [type |-> "cash", date |-> Unset, amount |-> Unset,
                                      amountCents |-> Unset])]

addCreditCardPayment(b) ==
    [b EXCEPT !.payments = Append(@, [type |-> "credit_card", date |-> Unset,
                                      amount |-> Unset, amountCents |-> Unset])]

addGiftCardPayment(b) ==
    [b EXCEPT !.payments = Append(@, [type |-> "gift_card", date |-> b.order.date,
                                      amount |-> Unset, amountCents |-> Unset])]

assumePaymentCoversFullAmount(b) == [b EXCEPT !.assumePaymentCoversFullAmount = TRUE]
\* adjustTotalBasedOnGiftCard() leaving the flag as it was
adjustTotalIgnored(b) == b
adjustTotalBasedOnGiftCard(b) == [b EXCEPT !.shouldAdjustTotalBasedOnGiftCards = TRUE]

\* this.lastPayment is undefined while there is no payment: reading its amount
\* is a TypeError.
setPaymentAmount(b, amount) ==
    LET m == parseMonetaryAmount(amount)
        n == Len(b.payments)
    IN IF n = 0 THEN Throw(b, "TypeError")
       ELSE IF b.payments[n].amount \notin {Unset, <<m.value>>}
       THEN Throw(b, "Payment amount already set")
       ELSE IF b.payments[n].amount = Unset
       THEN [onAttributeCaptured(b, "paymentAmount")
                EXCEPT !.payments[n].amount = <<m.value>>,
                       !.payments[n].amountCents = <<m.cents>>]
       ELSE b

finalizeItem(b) == [ensureShipment(b) EXCEPT !.lastItemFinalized = TRUE]

finalizeShipment(b) == [b EXCEPT !.lastShipmentFinalized = TRUE]
inferTaxes(b) == [b EXCEPT !.inferTaxes = TRUE]
nothingWillBeShipped(b) == [b EXCEPT !.shippingAddressRequired = FALSE]

setCurrency(b, currency) ==
    IF b.order.currency # Unset /\ b.order.currency # <<currency>>
    THEN Throw(b, "Currency already set")
    ELSE IF b.order.currency = Unset
    THEN [onAttributeCaptured(b, "currency") EXCEPT !.order.currency = <<currency>>]
    ELSE b

setDate(b, date) ==
    IF b.order.date # Unset /\ b.order.date # <<date>> THEN Throw(b, "Date already set")
    ELSE IF b.order.date = Unset
    THEN onAttributeCaptured([b EXCEPT !.order.date = <<date>>], "date")
    ELSE b

setID(b, id) ==
    IF b.order.id # Unset /\ b.order.id # <<id>> THEN Throw(b, "ID already set")
    ELSE IF b.order.id = Unset
    THEN onAttributeCaptured([b EXCEPT !.order.id = <<id>>], "id")
    ELSE b

setItemName(b, value) ==
    LET b1 == ensureShipmentItem(b)
        s == Len(b1.shipments)
        i == Len(b1.shipments[s].items)
    IN onAttributeCaptured([b1 EXCEPT !.shipments[s].items[i].name = <<value>>], "itemName")

setItemQuantity(b, value) ==
    LET b1 == ensureShipmentItem(b)
        s == Len(b1.shipments)
        i == Len(b1.shipments[s].items)
    IN onAttributeCaptured([b1 EXCEPT !.shipments[s].items[i].quantity = <<value>>],
                           "itemQuantity")

\* setItemPrice(value) without a quantity.
setItemPrice(b, value) ==
    LET b1 == ensureShipmentItem(b)
        s == Len(b1.shipments)
        i == Len(b1.shipments[s].items)
        m == parseMonetaryAmount(value)
    IN IF LastItem(b1).priceCents # Unset /\ LastItem(b1).priceCents # <<m.cents>>
       THEN Throw(b1, "Price already set")
       ELSE onAttributeCaptured([b1 EXCEPT !.shipments[s].items[i].price = <<m.value>>,
                                            !.shipments[s].items[i].priceCents = <<m.cents>>],
                                "itemPrice")

\* const fields = ["name", "address", "city", "state", "zip", "country"]
fields == <<"name", "address", "city", "state", "zip", "country">>

\* a builder that fills the address from its second field on and, once all are set, the last again
setNextShippingAddressFieldAfterName(b, value) ==
    LET b1 == ensureShipment(b)
        s == Len(b1.shipments)
        unset == {k \in 2..Len(fields) : LastShipment(b1).shippingAddress[fields[k]] = Unset}
        k == IF unset = {} THEN Len(fields) ELSE CHOOSE u \in unset : \A v \in unset : u <= v
    IN onAttributeCaptured([b1 EXCEPT !.shipments[s].shippingAddress[fields[k]] = <<value>>],
                           "shippingAddress." \o fields[k])

setNextShippingAddressField(b, value) ==
    LET b1 == ensureShipment(b)
        s == Len(b1.shipments)
        unset == {k \in 1..Len(fields) : LastShipment(b1).shippingAddress[fields[k]] = Unset}
    IN IF unset = {} THEN Throw(b1, "Unexpected shipping address value")
       ELSE LET k == CHOOSE u \in unset : \A v \in unset : u <= v
            IN onAttributeCaptured([b1 EXCEPT !.shipments[s].shippingAddress[fields[k]] = <<value>>],
                                   "shippingAddress." \o fields[k])

\* setShippingAddressName, setShippingState, setShippingZip: as setShippingCity, for another field
setShippingAddressPart(b, field, value, message) ==
    LET b1 == ensureShipment(b)
        s == Len(b1.shipments)
    IN IF LastShipment(b1).shippingAddress[field] \notin {Unset, <<value>>}
       THEN Throw(b1, message)
       ELSE IF LastShipment(b1).shippingAddress[field] = Unset
       THEN [onAttributeCaptured(b1, "shippingAddress." \o field)
                EXCEPT !.shipments[s].shippingAddress[field] = <<value>>]
       ELSE b1

setShippingAddressName(b, name) ==
    setShippingAddressPart(b, "name", name, "Shipping name already set")

setShippingState(b, state) ==
    setShippingAddressPart(b, "state", state, "Shipping state already set")

setShippingZip(b, zip) == setShippingAddressPart(b, "zip", zip, "Shipping zip already set")

\* addr.address.split(",").map((s) => s.trim())
SplitAddress(address) ==
    CASE address = "Seattle, WA" -> <<"Seattle", "WA">>
      [] OTHER -> <<address>>

fullShippingAddressNotAvailable(b) ==
    LET b1 == ensureShipment(b)
        s == Len(b1.shipments)
        addr == [f \in AddressFields |->
                    IF LastShipment(b1).shippingAddress[f] = Unset THEN <<"">>
                    ELSE LastShipment(b1).shippingAddress[f]]
        parts == SplitAddress(addr.address[1])
    IN [b1 EXCEPT !.shipments[s].shippingAddress =
           IF Len(parts) > 1
           THEN [addr EXCEPT !.address = <<"">>, !.state = <<parts[Len(parts)]>>,
                             !.city = <<parts[1]>>]
           ELSE addr]

setShippingCity(b, city) ==
    LET b1 == ensureShipment(b)
        s == Len(b1.shipments)
    IN IF LastShipment(b1).shippingAddress.city \notin {Unset, <<city>>}
       THEN Throw(b1, "Shipping city already set")
       ELSE IF LastShipment(b1).shippingAddress.city = Unset
       THEN [onAttributeCaptured(b1, "shippingAddress.city")
                EXCEPT !.shipments[s].shippingAddress.city = <<city>>]
       ELSE b1

setShippingDate(b, date) ==
    LET b1 == ensureShipment(b)
        s == Len(b1.shipments)
    IN onAttributeCaptured([b1 EXCEPT !.shipments[s].date = <<date>>], "shippingDate")

\* setShippingCost, setSubtotal and setTax have one shape: the conflict is
\* judged on the cents, the recording on the text.
setAmount(b, field, value, message) ==
    LET m == parseMonetaryAmount(value)
        cents == field \o "Cents"
    IN IF b.order[cents] # Unset /\ b.order[cents] # <<m.cents>> THEN Throw(b, message)
       ELSE IF b.order[field] = Unset
       THEN [onAttributeCaptured(b, field) EXCEPT !.order[field] = <<m.value>>,
                                                  !.order[cents] = <<m.cents>>]
       ELSE b

setShippingCost(b, value) == setAmount(b, "shippingCost", value, "Shipping cost already set")
setSubtotal(b, value) == setAmount(b, "subtotal", value, "Subtotal already set")
setTax(b, value) == setAmount(b, "tax", value, "Tax already set")

\* setTotal also sets the currency when the text starts with "$".
setTotal(b, value) ==
    LET b1 == setAmount(b, "total", value, "Total already set")
    IN IF b1.error # Unset THEN b1
       ELSE IF Chars(value)[1] = "$" THEN setCurrency(b1, "$")
       ELSE b1

\* /^\d{4}-\d{2}-\d{2}$/.test(date)
IsISODate(date) ==
    LET cs == Chars(date)
    IN /\ Len(cs) = 10
       /\ \A i \in {1, 2, 3, 4, 6, 7, 9, 10} : IsDigit(cs[i])
       /\ cs[5] = "-" /\ cs[8] = "-"

\* ensure(obj, key) throws when obj[key] == null.
MissingNever(obj, key) == FALSE
Missing(obj, key) == obj[key] = Unset

\* The items and shipping addresses build() reads with ensure(), in order.
MissingInShipments(b) ==
    \E s \in 1..Len(b.shipments) :
        \/ \E i \in 1..Len(b.shipments[s].items), f \in ItemFields :
              Missing(b.shipments[s].items[i], f)
        \/ /\ b.shippingAddressRequired
           /\ \E f \in AddressFields : Missing(b.shipments[s].shippingAddress, f)

\* The sum of the amountCents of the gift-card payments from the i-th on;
\* NaN (here <<>>) when one of them has no amount.
RECURSIVE giftCardTotalCents(_, _)
giftCardTotalCents(payments, i) ==
    IF i > Len(payments) THEN <<0>>
    ELSE LET rest == giftCardTotalCents(payments, i + 1)
         IN IF payments[i].type # "gift_card" THEN rest
            ELSE IF rest = <<>> \/ payments[i].amountCents = Unset THEN <<>>
            ELSE <<payments[i].amountCents[1] + rest[1]>>

calculateTotal(b) ==
    IF b.order.totalCents = Unset THEN [threw |-> TRUE, total |-> "", totalCents |-> <<>>]
    ELSE LET gift == giftCardTotalCents(b.payments, 1)
             totalCents == IF ~b.shouldAdjustTotalBasedOnGiftCards THEN b.order.totalCents
                           ELSE IF gift = <<>> THEN <<>>
                           ELSE <<b.order.totalCents[1] + gift[1]>>
             currency == parseMonetaryAmount(b.order.total[1]).currency
         IN [threw |-> FALSE,
             total |-> IF totalCents = <<>>
                       THEN (IF currency = <<>> THEN "undefined" ELSE currency[1]) \o "NaN.NaN"
                       ELSE formatMonetaryAmount(currency, totalCents[1]),
             totalCents |-> totalCents]

\* taxCents = totalCents - subtotalCents - shippingCostCents; NaN (here <<>>)
\* when an operand is undefined or NaN.
InferredTaxCents(b, totalCents) ==
    IF totalCents = <<>> \/ b.order.subtotalCents = Unset \/ b.order.shippingCostCents = Unset
    THEN <<>>
    ELSE <<totalCents[1] - b.order.subtotalCents[1] - b.order.shippingCostCents[1]>>

\* Several payments, one without an amount, while one is assumed to cover the
\* full amount.
AmbiguousPaymentsNever(b) == FALSE
AmbiguousPayments(b) ==
    /\ b.assumePaymentCoversFullAmount
    /\ Len(b.payments) > 1
    /\ \E i \in 1..Len(b.payments) : b.payments[i].amount = Unset

\* The payments of the Order: a payment without its own date has the order's,
\* one without an amount has the total when it is assumed to cover it.
BuiltPayments(b, t) ==
    [i \in 1..Len(b.payments) |->
        LET pm == b.payments[i]
            assumed == pm.amount = Unset /\ b.assumePaymentCoversFullAmount
        IN [type |-> pm.type,
            date |-> IF pm.date # Unset THEN pm.date ELSE b.order.date,
            amount |-> IF assumed THEN <<t.total>> ELSE pm.amount,
            amountCents |-> IF assumed THEN t.totalCents ELSE pm.amountCents]]

\* OrderBuilder.build()
buildOrder(b) ==
    LET o == b.order
        t == calculateTotal(b)
        taxCents == InferredTaxCents(b, t.totalCents)
        tax == IF taxCents = <<>>
               THEN (IF o.currency = Unset THEN "undefined" ELSE o.currency[1]) \o "NaN.NaN"
               ELSE formatMonetaryAmount(o.currency, taxCents[1])
        payments == BuiltPayments(b, t)
    IN IF t.threw THEN Throw(b, "Total not set")
       ELSE IF Missing(o, "subtotal") THEN Throw(b, "subtotal not set")
       ELSE IF Missing(o, "subtotalCents") THEN Throw(b, "subtotalCents not set")
       ELSE IF Missing(o, "tax") THEN Throw(b, "tax not set")
       ELSE IF Missing(o, "taxCents") THEN Throw(b, "taxCents not set")
       ELSE IF b.inferTaxes /\ o.taxCents \notin {Unset, <<0>>}
       THEN Throw(b, "inferTaxes is set but order already has tax")
       ELSE IF Missing(o, "date") THEN Throw(b, "date not set")
       ELSE IF o.date # Unset /\ ~IsISODate(o.date[1]) THEN Throw(b, "Invalid date format")
       ELSE IF AmbiguousPayments(b)
       THEN Throw(b, "Assuming payment covers full amount but multiple payments are set")
       ELSE IF Missing(o, "id") THEN Throw(b, "id not set")
       ELSE IF Missing(o, "currency") THEN Throw(b, "currency not set")
       ELSE IF \E i \in 1..Len(payments) : Missing(payments[i], "amount")
       THEN Throw(b, "amount not set")
       ELSE IF MissingInShipments(b) THEN Throw(b, "shipment field not set")
       ELSE [b EXCEPT !.built =
                <<[id |-> o.id, currency |-> o.currency, date |-> o.date,
                   payments |-> payments,
                   shipments |-> b.shipments,
                   shippingCost |-> o.shippingCost,
                   shippingCostCents |-> o.shippingCostCents,
                   subtotal |-> o.subtotal, subtotalCents |-> o.subtotalCents,
                   tax |-> IF b.inferTaxes THEN <<tax>> ELSE o.tax,
                   taxCents |-> IF b.inferTaxes THEN taxCents ELSE o.taxCents,
                   total |-> <<t.total>>, totalCents |-> t.totalCents]>>]

(***************************************************************************)
(* A caller of the OrderBuilder: any sequence of calls, ended by the first  *)
(* Error or by build().                                                     *)
(***************************************************************************)
MaxCalls == 3
OrderIDs == {"002-7394758-9918293", "111-2223334-4445556"}
Dates == {"1998-11-05", "Nov 5"}
Setters == {"setID", "setDate", "setSubtotal", "setTax", "setTotal", "setShippingCost",
            "setItemName", "setItemQuantity", "setItemPrice", "setShippingCity",
            "setShippingDate"}
Flags == {"inferTaxes", "nothingWillBeShipped", "finalizeItem"}
PaymentCalls == {"addCashPayment", "addCreditCardPayment", "addGiftCardPayment",
                 "setPaymentAmount", "assumePaymentCoversFullAmount",
                 "adjustTotalBasedOnGiftCard"}

Args(setter) ==
    CASE setter = "setID" -> OrderIDs
      [] setter \in {"setDate", "setShippingDate"} -> Dates
      [] setter = "setSubtotal" -> {"$1.00", "1.00", "$2.50"}
      [] setter = "setTax" -> {"$0.00", "$1.00"}
      [] setter = "setTotal" -> {"$2.50", "1.00"}
      [] setter = "setShippingCost" -> {"$0.00", "$1.00"}
      [] setter = "setItemName" -> {"Brave New World", "Island"}
      [] setter = "setItemQuantity" -> {1, 2}
      [] setter = "setItemPrice" -> {"$1.00", "1.00", "$2.50"}
      [] setter = "setShippingCity" -> {"Seattle", "Portland"}
      [] setter = "setPaymentAmount" -> {"$1.00", "$2.50"}
      [] setter = "setNextShippingAddressField" -> {"Jane Doe", "Seattle"}
      [] OTHER -> {""}

Apply(b, setter, arg) ==
    CASE setter = "setID" -> setID(b, arg)
      [] setter = "setDate" -> setDate(b, arg)
      [] setter = "setSubtotal" -> setSubtotal(b, arg)
      [] setter = "setTax" -> setTax(b, arg)
      [] setter = "setTotal" -> setTotal(b, arg)
      [] setter = "setShippingCost" -> setShippingCost(b, arg)
      [] setter = "setItemName" -> setItemName(b, arg)
      [] setter = "setItemQuantity" -> setItemQuantity(b, arg)
      [] setter = "setItemPrice" -> setItemPrice(b, arg)
      [] setter = "setShippingCity" -> setShippingCity(b, arg)
      [] setter = "setShippingDate" -> setShippingDate(b, arg)
      [] setter = "inferTaxes" -> inferTaxes(b)
      [] setter = "nothingWillBeShipped" -> nothingWillBeShipped(b)
      [] setter = "finalizeItem" -> finalizeItem(b)
      [] setter = "finalizeShipment" -> finalizeShipment(b)
      [] setter = "setNextShippingAddressField" -> setNextShippingAddressField(b, arg)
      [] setter = "addCashPayment" -> addCashPayment(b)
      [] setter = "addCreditCardPayment" -> addCreditCardPayment(b)
      [] setter = "addGiftCardPayment" -> addGiftCardPayment(b)
      [] setter = "setPaymentAmount" -> setPaymentAmount(b, arg)
      [] setter = "assumePaymentCoversFullAmount" -> assumePaymentCoversFullAmount(b)
      [] setter = "adjustTotalBasedOnGiftCard" -> adjustTotalBasedOnGiftCard(b)
      [] OTHER -> buildOrder(b)

\* What the field a setter targets holds before the call: the order's field,
\* or the field of the shipment or item the call will write to.
Target(b, setter) ==
    LET hasShipment == Len(b.shipments) > 0 /\ ~b.lastShipmentFinalized
        hasItem == /\ hasShipment
                   /\ Len(LastShipment(b).items) > 0
                   /\ ~b.lastItemFinalized
    IN CASE setter = "setID" -> b.order.id
         [] setter = "setDate" -> b.order.date
         [] setter = "setSubtotal" -> b.order.subtotal
         [] setter = "setTax" -> b.order.tax
         [] setter = "setTotal" -> b.order.total
         [] setter = "setShippingCost" -> b.order.shippingCost
         [] setter = "setItemName" -> IF hasItem THEN LastItem(b).name ELSE Unset
         [] setter = "setItemQuantity" -> IF hasItem THEN LastItem(b).quantity ELSE Unset
         [] setter = "setItemPrice" -> IF hasItem THEN LastItem(b).price ELSE Unset
         [] setter = "setShippingCity" ->
              IF hasShipment THEN LastShipment(b).shippingAddress.city ELSE Unset
         [] setter = "setShippingDate" -> IF hasShipment THEN LastShipment(b).date ELSE Unset
         [] OTHER -> Unset

\* The call with what it did: whether it threw, whether a field that held a
\* value holds another one now, and how often the observer was notified.
Overwrote(before, after) ==
    \/ \E f \in OrderFields : before.order[f] # Unset /\ after.order[f] # before.order[f]
    \/ \E s \in 1..Len(before.shipments) :
          \/ \E f \in AddressFields :
                /\ before.shipments[s].shippingAddress[f] # Unset
                /\ after.shipments[s].shippingAddress[f] # before.shipments[s].shippingAddress[f]
          \/ before.shipments[s].date \notin {Unset, after.shipments[s].date}
          \/ \E i \in 1..Len(before.shipments[s].items), f \in ItemFields :
                /\ before.shipments[s].items[i][f] # Unset
                /\ after.shipments[s].items[i][f] # before.shipments[s].items[i][f]

Called(b, setter, arg) ==
    LET after == Apply(b, setter, arg)
    IN [after EXCEPT
          !.calls = b.calls + 1,
          !.last = [setter |-> setter, arg |-> arg, before |-> Target(b, setter),
                    threw |-> after.error # Unset,
                    changed |-> <<after.order, after.shipments>> # <<b.order, b.shipments>>,
                    overwrote |-> Overwrote(b, after),
                    notified |-> Cardinality({a \in Attributes :
                                                after.captured[a] # b.captured[a]})]]

\* A builder after setSubtotal, setTax and setTotal.
WithAmounts == setTotal(setTax(setSubtotal(NewBuilder, "$1.00"), "$0.00"), "$2.50")

\* A builder after setID, setDate, setSubtotal and setTotal: no tax captured.
WithoutTax ==
    setTotal(setSubtotal(setDate(setID(NewBuilder, "002-7394758-9918293"), "1998-11-05"),
                         "$1.00"), "$2.50")

\* A builder holding all that build() requires, and one that also has a
\* credit-card payment assumed to cover the full amount.
Complete == setTax(WithoutTax, "$0.00")
WithPayment == assumePaymentCoversFullAmount(addCreditCardPayment(Complete))

BuilderReady ==
    /\ pc = "builder"
    /\ builder.error = Unset
    /\ builder.built = Unset
    /\ builder.calls < MaxCalls

BuilderCall ==
    /\ BuilderReady
    /\ \E setter \in Setters \cup Flags : \E arg \in Args(setter) :
          builder' = Called(builder, setter, arg)
    /\ UNCHANGED <<build, pc, cache, savedOrders, headless, scraper, options, prompts,
                   cmd, run, ppc, err, parser, money, nav, engine, tokenizer, store>>

PaymentCall ==
    /\ BuilderReady
    /\ \E call \in PaymentCalls : \E arg \in Args(call) :
          builder' = Called(builder, call, arg)
    /\ UNCHANGED <<build, pc, cache, savedOrders, headless, scraper, options, prompts,
                   cmd, run, ppc, err, parser, money, nav, engine, tokenizer, store>>

BuilderBuild ==
    /\ BuilderReady
    /\ builder' = Called(builder, "build", "")
    /\ UNCHANGED <<build, pc, cache, savedOrders, headless, scraper, options, prompts,
                   cmd, run, ppc, err, parser, money, nav, engine, tokenizer, store>>

\* A caller that fills shipments: items, address lines, finalizeItem and finalizeShipment.
MaxShipmentCalls == 5
ShipmentCalls == {"setItemName", "setNextShippingAddressField", "finalizeItem", "finalizeShipment"}

\* the call, and which calls came before each creation of a shipment
ShipmentCalled(b, setter, arg) ==
    LET after == Called(b, setter, arg)
    IN IF Len(after.shipments) > Len(b.shipments)
       THEN [after EXCEPT !.sinceCreated = <<>>, !.createdAfter = Append(@, b.sinceCreated)]
       ELSE [after EXCEPT !.sinceCreated = Append(@, setter)]

ShipmentCall ==
    /\ pc = "builder"
    /\ builder.error = Unset
    /\ builder.calls < MaxShipmentCalls
    /\ \E setter \in ShipmentCalls : \E arg \in Args(setter) :
          builder' = ShipmentCalled(builder, setter, arg)
    /\ UNCHANGED <<build, pc, cache, savedOrders, headless, scraper, options, prompts,
                   cmd, run, ppc, err, parser, money, nav, engine, tokenizer, store>>

(***************************************************************************)
(* Invoice parser (invoice-parser/parser.ts, main.ts, patterns.ts). A token *)
(* is kept as the label it begins with and the value that follows, its text *)
(* being label \o value.                                                    *)
(***************************************************************************)
Token(label, value) == [label |-> label, value |-> value]

\* MONEY_PATTERN = -?\$?\d{1,3}(?:,\d{3})*(?:\.\d{2})? matched against a whole text
RECURSIVE MoneyRest(_, _)
MoneyRest(cs, i) ==
    IF i > Len(cs) THEN TRUE
    ELSE IF cs[i] = ","
    THEN /\ i + 3 <= Len(cs)
         /\ \A j \in (i + 1)..(i + 3) : IsDigit(cs[j])
         /\ MoneyRest(cs, i + 4)
    ELSE /\ cs[i] = "."
         /\ i + 2 = Len(cs)
         /\ IsDigit(cs[i + 1]) /\ IsDigit(cs[i + 2])

MatchesMoney(cs) ==
    LET a == IF cs # <<>> /\ cs[1] = "-" THEN 2 ELSE 1
        b == IF a <= Len(cs) /\ cs[a] = "$" THEN a + 1 ELSE a
        n == CHOOSE k \in 0..3 :
                /\ \A j \in b..(b + k - 1) : j <= Len(cs) /\ IsDigit(cs[j])
                /\ k = 3 \/ b + k > Len(cs) \/ ~IsDigit(cs[b + k])
    IN n >= 1 /\ MoneyRest(cs, b + n)
IsMoney(text) == MatchesMoney(Chars(text))

\* AMAZON_ORDER_ID_PATTERN = \d{3}-\d{7}-\d{7}
IsOrderID(text) ==
    LET cs == Chars(text)
    IN /\ Len(cs) = 19
       /\ cs[4] = "-" /\ cs[12] = "-"
       /\ \A j \in (1..19) \ {4, 12} : IsDigit(cs[j])

\* DATE_MMMM_DD_YYYY_PATTERN: the groups of a text it matches
DateGroups(text) ==
    CASE text = "November 5, 1998" -> <<[month |-> "November", day |-> 5, year |-> 1998]>>
      [] text = "January 4, 2017" -> <<[month |-> "January", day |-> 4, year |-> 2017]>>
      [] OTHER -> <<>>

\* ^(\d+) of: the quantity a label begins with, <<>> if it has another form
Quantity(label) ==
    LET cs == Chars(label)
    IN IF Len(cs) = 6 /\ IsDigit(cs[1]) /\ SubSeq(cs, 2, 6) = <<" ", "o", "f", ":", " ">>
       THEN <<parseInt(<<cs[1]>>)>>
       ELSE <<>>

MONTHS == <<"January", "February", "March", "April", "May", "June", "July", "August",
            "September", "October", "November", "December">>
pad(n) == (IF n < 10 THEN "0" ELSE "") \o ToString(n)

\* OrderBuilder.normalizeDate(year, month, day) for the groups of a date
normalizeDate(g) ==
    LET month == IF \E m \in 1..12 : MONTHS[m] = g.month
                 THEN pad(CHOOSE m \in 1..12 : MONTHS[m] = g.month)
                 ELSE g.month
    IN ToString(g.year) \o "-" \o month \o "-" \o pad(g.day)

\* The match rules of the states, in declaration order, left out where the
\* pattern matches no token of the invoices below. `label` is the literal text
\* the pattern begins with ("*" for any text), `value` the kind of text that
\* must follow.
Rules(state) ==
    CASE state = "unknown" ->
           <<[test |-> "equals",
              label |-> "Brief content visible, double tap to read full content.",
              value |-> "none", process |-> "unknownV2"],
             [test |-> "matches", label |-> "Amazon.com - Order ", value |-> "id",
              process |-> "onlineOrder"]>>
      [] state = "unknown_v2" ->
           <<[test |-> "matches", label |-> "", value |-> "date", process |-> "setDate"],
             [test |-> "matches", label |-> "", value |-> "id", process |-> "setID"],
             [test |-> "equals", label |-> "Ship to", value |-> "none",
              process |-> "onlineOrderShipping"]>>
      [] state = "online_order" ->
           <<[test |-> "matches", label |-> "*", value |-> "id", process |-> "setID"],
             [test |-> "matches", label |-> "Order Total: ", value |-> "money",
              process |-> "setTotal"],
             [test |-> "matches", label |-> "Order Placed: ", value |-> "date",
              process |-> "setDate"],
             [test |-> "equals", label |-> "Items Ordered", value |-> "none",
              process |-> "onlineOrderItems"],
             [test |-> "matches", label |-> "Item(s) Subtotal: ", value |-> "money",
              process |-> "setSubtotal"],
             [test |-> "matches", label |-> "Shipping & Handling: ", value |-> "money",
              process |-> "setShippingCost"],
             [test |-> "matches", label |-> "Estimated tax to be collected: ",
              value |-> "money", process |-> "setTax"],
             [test |-> "matches", label |-> "Gift Card Amount: -", value |-> "money",
              process |-> "giftCard"]>>
      [] state = "online_order_items" ->
           <<[test |-> "matches", label |-> "", value |-> "item", process |-> "setItem"],
             [test |-> "matches", label |-> "", value |-> "money",
              process |-> "setItemPrice"],
             [test |-> "equals",
              label |-> "Shipping Address: Shipping Speed: Payment information",
              value |-> "none", process |-> "nothingWillBeShipped"],
             [test |-> "matches", label |-> "Shipping Address: ", value |-> "text",
              process |-> "setShippingAddressName"]>>
      [] state = "online_order_shipping" ->
           <<[test |-> "matches", label |-> "Shipping Speed: Shipped on ", value |-> "date",
              process |-> "shippedOn"],
             [test |-> "matches", label |-> "Shipping Speed: ", value |-> "rest",
              process |-> "shippingSpeed"],
             [test |-> "equals", label |-> "Payment information", value |-> "none",
              process |-> "paymentInformation"],
             [test |-> "equals", label |-> "Payment method", value |-> "none",
              process |-> "onlineOrderPayment"],
             [test |-> "equals", label |-> "(Full address hidden for privacy.)",
              value |-> "none", process |-> "fullShippingAddressNotAvailable"],
             [test |-> "matches", label |-> "*", value |-> "cityStateZip",
              process |-> "setShippingCityStateZip"],
             [test |-> "matches", label |-> "*", value |-> "any",
              process |-> "setNextShippingAddressField"]>>
      [] OTHER -> <<>>

\* regex.exec(token) / token === processor.equals
\* ^(?<city>.+), (?<state>[A-Z]+) (?<zip>\d{5}(?:-\d{4})?)$: the groups of a token it matches
CityStateZip(token) ==
    CASE token.label = "Seattle, WA " /\ token.value = "98101" ->
           <<[city |-> "Seattle", state |-> "WA", zip |-> "98101"]>>
      [] OTHER -> <<>>

Matches(rule, token) ==
    IF rule.test = "equals" THEN token.label = rule.label /\ token.value = ""
    ELSE CASE rule.value = "id" ->
                /\ rule.label \in {"*", token.label}
                /\ IsOrderID(token.value)
           [] rule.value = "money" -> token.label = rule.label /\ IsMoney(token.value)
           [] rule.value = "date" ->
                token.label = rule.label /\ DateGroups(token.value) # <<>>
           [] rule.value = "item" -> Quantity(token.label) # <<>> /\ token.value # ""
           [] rule.value = "text" -> token.label = rule.label /\ token.value # ""
           [] rule.value = "rest" -> token.label = rule.label
           [] rule.value = "cityStateZip" -> CityStateZip(token) # <<>>
           [] rule.value = "any" -> token.label # "" \/ token.value # ""
           [] OTHER -> FALSE

\* A builder call made after another one, which is skipped if that one threw.
Then(b, next(_)) == IF b.error # Unset THEN b ELSE next(b)

\* a state that starts over when no rule handled the token
funcInitial(state) == "unknown"

\* newParserState: no rule handled the token, `return func` stays in this state
func(state) == state

\* newParserState: the state function applied to a token. The rules are tried in
\* order; a process() that returns true ends the search, one that returns a
\* state makes it the result, and when no rule gives a state the state itself
\* is the result. `fired` lists the rules whose process() ran.
RECURSIVE ParserState(_, _, _, _, _)
Process(rule, token, b) ==
    CASE rule.process = "onlineOrder" ->
           \* return onlineOrder(token, order, options)
           LET r == ParserState("online_order", 1, token, b, <<>>)
           IN [builder |-> r.builder, result |-> r.next]
      [] rule.process = "setID" ->
           [builder |-> setID(b, token.value), result |-> "true"]
      [] rule.process = "setTotal" ->
           [builder |-> setTotal(b, token.value), result |-> "true"]
      [] rule.process = "setDate" ->
           [builder |-> setDate(b, normalizeDate(DateGroups(token.value)[1])),
            result |-> "true"]
      [] rule.process = "setSubtotal" ->
           [builder |-> setSubtotal(b, token.value), result |-> "true"]
      [] rule.process = "setShippingCost" ->
           [builder |-> setShippingCost(b, token.value), result |-> "true"]
      [] rule.process = "setTax" ->
           [builder |-> setTax(b, token.value), result |-> "true"]
      [] rule.process = "giftCard" ->
           [builder |-> Then(setPaymentAmount(addGiftCardPayment(b), token.value),
                             adjustTotalBasedOnGiftCard),
            result |-> "true"]
      [] rule.process = "onlineOrderItems" ->
           [builder |-> b, result |-> "online_order_items"]
      [] rule.process = "setItem" ->
           [builder |-> setItemQuantity(setItemName(b, token.value),
                                        Quantity(token.label)[1]),
            result |-> "true"]
      [] rule.process = "setItemPrice" ->
           [builder |-> Then(setItemPrice(b, token.value), finalizeItem),
            result |-> "true"]
      [] rule.process = "unknownV2" -> [builder |-> b, result |-> "unknown_v2"]
      [] rule.process = "onlineOrderShipping" ->
           [builder |-> b, result |-> "online_order_shipping"]
      [] rule.process = "setShippingAddressName" ->
           [builder |-> setShippingAddressName(b, token.value),
            result |-> "online_order_shipping"]
      [] rule.process = "shippedOn" ->
           [builder |-> setShippingDate(finalizeShipment(b),
                                        normalizeDate(DateGroups(token.value)[1])),
            result |-> "online_order"]
      [] rule.process \in {"shippingSpeed", "paymentInformation"} ->
           [builder |-> b, result |-> "online_order"]
      [] rule.process = "onlineOrderPayment" ->
           [builder |-> b, result |-> "online_order_payment"]
      [] rule.process = "fullShippingAddressNotAvailable" ->
           [builder |-> fullShippingAddressNotAvailable(b), result |-> "online_order"]
      [] rule.process = "setShippingCityStateZip" ->
           \* order.setShippingCity(city).setShippingState(state).setShippingZip(zip)
           LET g == CityStateZip(token)[1]
               setState(x) == setShippingState(x, g.state)
               setZip(x) == setShippingZip(x, g.zip)
           IN [builder |-> Then(Then(setShippingCity(b, g.city), setState), setZip),
               result |-> "true"]
      [] rule.process = "setNextShippingAddressField" ->
           [builder |-> setNextShippingAddressField(b, token.label \o token.value),
            result |-> "true"]
      [] OTHER ->
           \* nothingWillBeShipped
           [builder |-> nothingWillBeShipped(b), result |-> "online_order"]

ParserState(state, k, token, b, fired) ==
    IF k > Len(Rules(state)) THEN [builder |-> b, next |-> func(state), fired |-> fired]
    ELSE IF ~Matches(Rules(state)[k], token) THEN ParserState(state, k + 1, token, b, fired)
    ELSE LET r == Process(Rules(state)[k], token, b)
         IN IF r.builder.error # Unset \/ r.result = "true"
            THEN [builder |-> r.builder, next |-> state, fired |-> Append(fired, k)]
            ELSE [builder |-> r.builder, next |-> r.result, fired |-> Append(fired, k)]

(***************************************************************************)
(* Invoices, as the tokens getContentChunks gives for them.                 *)
(***************************************************************************)
\* The invoice of 1998 in its own layout.
Invoice1998 ==
    <<Token("Amazon.com order number: ", "002-7394758-9918293"),
      Token("Order Placed: ", "November 5, 1998"),
      Token("Items Ordered", ""),
      Token("1 of: ", "Brave New World, Aldous Huxley"),
      Token("", "$8.00"),
      Token("Item(s) Subtotal: ", "$77.15"),
      Token("Shipping & Handling: ", "$11.55"),
      Token("Sales Tax: ", "$7.63"),
      Token("Total for this Order: ", "$96.33")>>

\* The same amounts in the layout of an online order with nothing shipped.
InvoiceOnline ==
    <<Token("Amazon.com - Order ", "002-7394758-9918293"),
      Token("Order Placed: ", "November 5, 1998"),
      Token("Items Ordered", ""),
      Token("1 of: ", "Brave New World, Aldous Huxley"),
      Token("", "$8.00"),
      Token("Shipping Address: Shipping Speed: Payment information", ""),
      Token("Item(s) Subtotal: ", "$77.15"),
      Token("Shipping & Handling: ", "$11.55"),
      Token("Estimated tax to be collected: ", "$7.63"),
      Token("Order Total: ", "$96.33")>>

\* An online order paid with a gift card.
InvoiceGiftCard ==
    <<Token("Amazon.com - Order ", "107-9993388-1117733"),
      Token("Order Placed: ", "January 4, 2017"),
      Token("Item(s) Subtotal: ", "$16.98"),
      Token("Shipping & Handling: ", "$0.00"),
      Token("Estimated tax to be collected: ", "$1.48"),
      Token("Order Total: ", "$16.98"),
      Token("Gift Card Amount: -", "$18.46")>>

\* An invoice and what is left of it when one of its tokens is missing.
Variants(invoice) ==
    {invoice} \cup
    {SubSeq(invoice, 1, i - 1) \o SubSeq(invoice, i + 1, Len(invoice)) :
        i \in 1..Len(invoice)}

\* The lines that can follow 'Shipping Address: <name>' or 'Ship to': free text, or city, state and zip.
\* one line more than the address has fields
MaxLines == Len(fields) + 1
AddressLines == {Token("", "123 Main St"), Token("", "United States"), Token("Seattle, WA ", "98101")}

\* An online order whose items are followed by its address, and an order in the newer layout.
ShippingInvoices ==
    {head \o lines \o tail :
        head \in {<<Token("Amazon.com - Order ", "002-7394758-9918293"),
                    Token("Items Ordered", ""),
                    Token("Shipping Address: ", "Jane Doe")>>,
                  <<Token("Brief content visible, double tap to read full content.", ""),
                    Token("Ship to", "")>>},
        lines \in UNION {[1..n -> AddressLines] : n \in 0..MaxLines},
        tail \in {<<>>, <<Token("Shipping Speed: ", "Standard")>>}}

Invoices == Variants(Invoice1998) \cup Variants(InvoiceOnline) \cup Variants(InvoiceGiftCard)

IdleParser == [schedule |-> <<>>, run |-> 0, tokens |-> <<>>, i |-> 0,
               state |-> "unknown", results |-> <<>>]

\* createParser: let currentState = initialState
initialStateKept(previous) == previous
initialState(previous) == "unknown"

\* parseInvoiceHTML(html) begins: the tokens, a new OrderBuilder, the parser.
ParseStart ==
    /\ pc = "parse_start"
    /\ builder' = NewBuilder
    /\ parser' = [parser EXCEPT !.run = @ + 1,
                                !.tokens = parser.schedule[parser.run + 1],
                                !.i = 1,
                                !.state = initialState(parser.state)]
    /\ pc' = "parse_token"
    /\ UNCHANGED <<build, cache, savedOrders, headless, scraper, options, prompts,
                   cmd, run, ppc, err, money, nav, engine, tokenizer, store>>

\* parseInvoiceHTML returns or throws: what its caller sees.
Finished(b) ==
    [parser EXCEPT !.results = Append(@, [built |-> b.built, error |-> b.error])]

\* for (const token of tokens): one token is given to the current state.
ParseToken ==
    /\ pc = "parse_token"
    /\ parser.i <= Len(parser.tokens)
    /\ LET r == ParserState(parser.state, 1, parser.tokens[parser.i], builder, <<>>)
       IN /\ builder' = r.builder
          /\ IF r.builder.error # Unset
             THEN /\ parser' = Finished(r.builder)
                  /\ pc' = IF parser.run < Len(parser.schedule) THEN "parse_start"
                           ELSE "parsed"
             ELSE /\ parser' = [parser EXCEPT !.i = @ + 1, !.state = r.next]
                  /\ pc' = pc
    /\ UNCHANGED <<build, cache, savedOrders, headless, scraper, options, prompts,
                   cmd, run, ppc, err, money, nav, engine, tokenizer, store>>

\* return orderBuilder.build()
ParseBuild ==
    /\ pc = "parse_token"
    /\ parser.i > Len(parser.tokens)
    /\ builder' = buildOrder(builder)
    /\ parser' = Finished(buildOrder(builder))
    /\ pc' = IF parser.run < Len(parser.schedule) THEN "parse_start" ELSE "parsed"
    /\ UNCHANGED <<build, cache, savedOrders, headless, scraper, options, prompts,
                   cmd, run, ppc, err, money, nav, engine, tokenizer, store>>

(***************************************************************************)
(* A caller of money.ts: an amount text is parsed, the result formatted,   *)
(* the formatted text parsed again; the negated text is parsed as well.    *)
(***************************************************************************)
Amounts == {Join(cs) : cs \in InputChars}

IdleMoney == [amount |-> "", parsed |-> <<>>, formatted |-> <<>>,
              reparsed |-> <<>>, negated |-> <<>>]

\* parseMonetaryAmount(s)
MoneyParse ==
    /\ pc = "money"
    /\ money.parsed = <<>>
    /\ money' = [money EXCEPT !.parsed =
                    <<parseMonetaryAmountOf(TextChars(money.amount), money.amount)>>]
    /\ UNCHANGED <<build, pc, cache, savedOrders, headless, scraper, options, prompts,
                   cmd, run, ppc, err, builder, parser, nav, engine, tokenizer, store>>

\* formatMonetaryAmount(parseMonetaryAmount(s))
MoneyFormat ==
    /\ pc = "money"
    /\ money.parsed # <<>>
    /\ money.formatted = <<>>
    /\ money' = [money EXCEPT !.formatted =
                    <<formatMonetaryAmount(money.parsed[1].currency,
                                           money.parsed[1].cents)>>]
    /\ UNCHANGED <<build, pc, cache, savedOrders, headless, scraper, options, prompts,
                   cmd, run, ppc, err, builder, parser, nav, engine, tokenizer, store>>

\* parseMonetaryAmount(formatMonetaryAmount(parseMonetaryAmount(s)))
MoneyReparse ==
    /\ pc = "money"
    /\ money.formatted # <<>>
    /\ money.reparsed = <<>>
    /\ money' = [money EXCEPT !.reparsed =
                    <<parseMonetaryAmountOf(TextChars(money.formatted[1]),
                                            money.formatted[1])>>]
    /\ UNCHANGED <<build, pc, cache, savedOrders, headless, scraper, options, prompts,
                   cmd, run, ppc, err, builder, parser, nav, engine, tokenizer, store>>

\* parseMonetaryAmount("-" + a) for an amount text a without a sign
MoneyNegate ==
    /\ pc = "money"
    /\ money.negated = <<>>
    /\ TextChars(money.amount)[1] # "-"
    /\ money' = [money EXCEPT !.negated =
                    <<parseMonetaryAmountOf(TextChars("-" \o money.amount),
                                            "-" \o money.amount)>>]
    /\ UNCHANGED <<build, pc, cache, savedOrders, headless, scraper, options, prompts,
                   cmd, run, ppc, err, builder, parser, nav, engine, tokenizer, store>>

(***************************************************************************)
(* Scraper.navigatePage: the rate limit between navigations. Times are in  *)
(* milliseconds; #lastNavigationAt starts at 0 (1 January 1970).            *)
(***************************************************************************)
\* DEFAULT_OPTIONS
minDelay == 500
maxDelay == 1500
\* The clock is observed in steps of TickMs and the run ends by MaxTime.
TickMs == 250
MaxTime == 4000
\* Math.ceil(Math.random() * (maxDelay - minDelay) + minDelay): some of the
\* values the draw can give.
Draws == {minDelay, minDelay + TickMs, maxDelay}
NavURLs == {ORDERS_URL, YearURL(2), InvoiceURL(1)}

IdleNav == [now |-> 0, lastNavigationAt |-> 0, url |-> "about:blank",
            phase |-> "idle", target |-> NoURL, completed |-> 0,
            \* observations of the last call
            navRequired |-> FALSE, msSinceLastNavigation |-> 0, drawn |-> 0,
            delay |-> 0, waited |-> 0, startedAt |-> 0]

\* A faulty variant of Delay: no wait at all.
DelayNone(drawn, msSinceLastNavigation) == 0
\* Math.max(0, minDelay - msSinceLastNavigation)
Delay(drawn, msSinceLastNavigation) ==
    IF drawn - msSinceLastNavigation > 0 THEN drawn - msSinceLastNavigation ELSE 0

\* Time passes between two calls of navigatePage.
NavElapse ==
    /\ pc = "nav"
    /\ nav.phase = "idle"
    /\ nav.now + TickMs <= MaxTime
    /\ nav' = [nav EXCEPT !.now = @ + TickMs]
    /\ UNCHANGED <<build, pc, cache, savedOrders, headless, scraper, options, prompts,
                   cmd, run, ppc, err, builder, parser, money, engine, tokenizer, store>>

\* navigatePage(page, url) up to page.goto: nothing to do when the page is at
\* the URL already; otherwise the delay is computed and waited for (a timer
\* fires on time or one tick late).
NavigatePage ==
    /\ pc = "nav"
    /\ nav.phase = "idle"
    /\ \E url \in NavURLs, drawn \in Draws, late \in {0, TickMs} :
         LET msSinceLastNavigation == nav.now - nav.lastNavigationAt
             delay == Delay(drawn, msSinceLastNavigation)
             waited == IF delay > 0 THEN delay + late ELSE 0
         IN IF nav.url = url
            THEN nav' = [nav EXCEPT !.target = url, !.navRequired = FALSE]
            ELSE /\ nav.now + waited <= MaxTime
                 /\ nav' = [nav EXCEPT !.target = url, !.navRequired = TRUE,
                                       !.msSinceLastNavigation = msSinceLastNavigation,
                                       !.drawn = drawn, !.delay = delay,
                                       !.waited = waited,
                                       !.now = @ + waited,
                                       !.startedAt = nav.now + waited,
                                       !.phase = "goto"]
    /\ UNCHANGED <<build, pc, cache, savedOrders, headless, scraper, options, prompts,
                   cmd, run, ppc, err, builder, parser, money, engine, tokenizer, store>>

\* await page.goto(url); this.#lastNavigationAt = new Date(). A goto that
\* throws leaves #lastNavigationAt as it was.
NavGoto ==
    /\ pc = "nav"
    /\ nav.phase = "goto"
    /\ \E took \in {0, TickMs}, ok \in BOOLEAN :
         /\ nav.now + took <= MaxTime
         /\ nav' = IF ok
                   THEN [nav EXCEPT !.now = @ + took, !.phase = "idle",
                                    !.url = nav.target,
                                    !.lastNavigationAt = nav.now + took,
                                    !.completed = @ + 1]
                   ELSE [nav EXCEPT !.now = @ + took, !.phase = "idle"]
    /\ UNCHANGED <<build, pc, cache, savedOrders, headless, scraper, options, prompts,
                   cmd, run, ppc, err, builder, parser, money, engine, tokenizer, store>>

(***************************************************************************)
(* The parser engine (invoice-parser/parser.ts) over any rules its types   *)
(* allow. A rule is {matches, process} or {matches, ignore: true}; what    *)
(* its handler returns is a state, true, false or nothing.                 *)
(***************************************************************************)
EngineStates == {"s1", "s2"}

EngineTokens == {"a", "b"}

MaxTokens == 3

\* what a handler may return (types.ts: ParserState<T> | boolean | void); "ignore" marks a rule without handler
Returns == EngineStates \cup {"true", "false", "undefined"}

EngineRules == [matches : {{"a"}, {"a", "b"}}, process : Returns \cup {"ignore"}]

\* the states handed to createParser: s1 has two rules, s2 one
EnginePrograms ==
    {[s \in EngineStates |-> IF s = "s1" THEN <<r1, r2>> ELSE <<r3>>] :
        r1 \in EngineRules, r2 \in EngineRules, r3 \in {r \in EngineRules : r.process \in EngineStates}}

TokenLists == UNION {[1..n -> EngineTokens] : n \in 1..MaxTokens}

\* compileMatchProcessor: the processor of one rule applied to a token; ran tells whether process() was called
compileMatchProcessor(rule, token) ==
    IF rule.process = "ignore" THEN [result |-> "undefined", ran |-> FALSE]
    ELSE IF token \in rule.matches THEN [result |-> rule.process, ran |-> TRUE]
    ELSE [result |-> "undefined", ran |-> FALSE]

\* a loop that left at the first rule matching the token, whatever its handler returned
RECURSIVE firstMatchWins(_, _, _, _, _)
firstMatchWins(args, state, k, token, ran) ==
    IF k > Len(args) THEN [next |-> state, ran |-> ran]
    ELSE IF token \notin args[k].matches THEN firstMatchWins(args, state, k + 1, token, ran)
    ELSE LET r == compileMatchProcessor(args[k], token)
         IN [next |-> IF r.result \in EngineStates THEN r.result ELSE state,
             ran |-> IF r.ran THEN Append(ran, k) ELSE ran]

\* newParserState: func, the loop over the rules from rule k on; ran lists the rules whose handler was called
RECURSIVE newParserState(_, _, _, _, _)
newParserState(args, state, k, token, ran) ==
    IF k > Len(args) THEN [next |-> state, ran |-> ran]
    ELSE LET r == compileMatchProcessor(args[k], token)
             called == IF r.ran THEN Append(ran, k) ELSE ran
         IN IF r.result = "true" THEN [next |-> state, ran |-> called]
            ELSE IF r.result # "undefined" /\ r.result # "false" THEN [next |-> r.result, ran |-> called]
            ELSE newParserState(args, state, k + 1, token, called)

\* a loop that replaced the state after every token
stateReplaced(nextState, currentState) == TRUE

\* createParser: nextState && nextState !== currentState
stateChanged(nextState, currentState) == nextState # currentState

IdleEngine ==
    [args |-> <<>>, tokens |-> <<>>, i |-> 0, currentState |-> "s1", phase |-> "idle",
     onToken |-> <<>>, returned |-> <<>>, onStateChange |-> <<>>, ran |-> <<>>, context |-> <<>>]

\* the parser returned by createParser(s1), one iteration of its loop over the tokens
EngineToken ==
    /\ pc = "engine"
    /\ engine.phase = "loop"
    /\ engine.i < Len(engine.tokens)
    /\ LET token == engine.tokens[engine.i + 1]
           currentState == engine.currentState
           r == newParserState(engine.args[currentState], currentState, 1, token, <<>>)
           changed == stateChanged(r.next, currentState)
       IN engine' = [engine EXCEPT
                        !.i = @ + 1,
                        !.onToken = Append(@, <<token, currentState>>),
                        !.returned = Append(@, r.next),
                        !.ran = r.ran,
                        !.context = @ \o [j \in 1..Len(r.ran) |-> <<currentState, r.ran[j], token>>],
                        !.onStateChange = IF changed THEN Append(@, <<engine.i + 1, currentState, r.next>>) ELSE @,
                        !.currentState = IF changed THEN r.next ELSE @]
    /\ UNCHANGED <<build, pc, cache, savedOrders, headless, scraper, options, prompts, cmd, run, ppc, err,
                   builder, parser, money, nav, tokenizer, store>>

\* the loop is over: the parser returns
EngineReturn ==
    /\ pc = "engine"
    /\ engine.phase = "loop"
    /\ engine.i = Len(engine.tokens)
    /\ engine' = [engine EXCEPT !.phase = "returned"]
    /\ UNCHANGED <<build, pc, cache, savedOrders, headless, scraper, options, prompts, cmd, run, ppc, err,
                   builder, parser, money, nav, tokenizer, store>>

(***************************************************************************)
(* Tokenizer (invoice-parser/html.ts). A text is the sequence of its       *)
(* characters; a document is the sequence of its child nodes, a node being *)
(* a text node or an element with child nodes.                             *)
(***************************************************************************)
IGNORE_NODES == {"script", "style", "noscript"}

MaxNodes == 3

\* what a text node can hold
RawValues ==
    {<<>>, <<" ">>, <<"a">>, <<":">>, <<",">>, <<"a", ":">>, <<",", "a">>, <<",", ":">>,
     <<" ", "a", " ", " ", ":", " ">>, <<"a", " ", " ", "b">>}

TextNode(value) == [nodeName |-> "#text", value |-> value, childNodes |-> <<>>]

Element(name, children) == [nodeName |-> name, value |-> <<>>, childNodes |-> children]

Nodes ==
    {TextNode(v) : v \in RawValues}
    \cup {Element(name, <<TextNode(v)>>) : name \in {"div", "script"}, v \in {<<"a", ":">>, <<",", "a">>}}

Documents == UNION {[1..n -> Nodes] : n \in 0..MaxNodes}

IsSpace(c) == c = " "

\* String.prototype.trim
RECURSIVE trim(_)
trim(cs) ==
    IF cs = <<>> THEN cs
    ELSE IF IsSpace(cs[1]) THEN trim(Tail(cs))
    ELSE IF IsSpace(cs[Len(cs)]) THEN trim(SubSeq(cs, 1, Len(cs) - 1))
    ELSE cs

\* replace(/\s+/g, " ")
RECURSIVE collapse(_)
collapse(cs) ==
    IF cs = <<>> THEN cs
    ELSE IF IsSpace(cs[1]) /\ Len(cs) > 1 /\ IsSpace(cs[2]) THEN collapse(Tail(cs))
    ELSE <<cs[1]>> \o collapse(Tail(cs))

\* a tokenizer that glues nothing to a chunk ending in a colon
endsWithNothing(chunk, c) == FALSE

endsWith(chunk, c) == chunk # <<>> /\ chunk[Len(chunk)] = c

startsWith(value, c) == value # <<>> /\ value[1] = c

\* the callback of getContentChunks for a text node
appendChunk(chunks, node) ==
    LET value == collapse(trim(node.value))
        n == Len(chunks)
    IN IF Len(value) = 0 THEN chunks
       ELSE IF n > 0 /\ endsWith(chunks[n], ":")
       THEN [chunks EXCEPT ![n] = @ \o <<" ">> \o value]
       ELSE IF startsWith(value, ",") /\ n > 0
       THEN [chunks EXCEPT ![n] = @ \o value]
       ELSE Append(chunks, value)

\* doVisit: the callback on the node, then on its child nodes unless the callback skipped them
RECURSIVE doVisit(_, _)
RECURSIVE visitChildren(_, _, _)
visitChildren(chunks, nodes, k) ==
    IF k > Len(nodes) THEN chunks ELSE visitChildren(doVisit(chunks, nodes[k]), nodes, k + 1)

doVisit(chunks, node) ==
    IF node.nodeName \in IGNORE_NODES THEN chunks
    ELSE IF node.nodeName = "#text" THEN appendChunk(chunks, node)
    ELSE visitChildren(chunks, node.childNodes, 1)

IdleTokenizer == [document |-> <<>>, visited |-> 0, chunks |-> <<>>, phase |-> "idle"]

\* visitNodes: for (const child of parsedDocument.childNodes) doVisit(child)
VisitNode ==
    /\ pc = "tokenizer"
    /\ tokenizer.phase = "visiting"
    /\ tokenizer.visited < Len(tokenizer.document)
    /\ tokenizer' = [tokenizer EXCEPT
                        !.visited = @ + 1,
                        !.chunks = doVisit(@, tokenizer.document[tokenizer.visited + 1])]
    /\ UNCHANGED <<build, pc, cache, savedOrders, headless, scraper, options, prompts, cmd, run, ppc, err,
                   builder, parser, money, nav, engine, store>>

\* return chunks
ChunksReturn ==
    /\ pc = "tokenizer"
    /\ tokenizer.phase = "visiting"
    /\ tokenizer.visited = Len(tokenizer.document)
    /\ tokenizer' = [tokenizer EXCEPT !.phase = "returned"]
    /\ UNCHANGED <<build, pc, cache, savedOrders, headless, scraper, options, prompts, cmd, run, ppc, err,
                   builder, parser, money, nav, engine, store>>

(***************************************************************************)
(* DataStore (dist/datastore.js): the cache table and the order tables. A   *)
(* table is the set of its rows; ids come from AUTOINCREMENT counters.      *)
(***************************************************************************)
MaxStoreCalls == 3

StoreKeys == {cacheKey(InvoiceURL(1)), cacheKey(YearURL(1))}

\* The orders a caller saves: one shipment, or two with their own items.
StoreOrders ==
    {[id |-> "002-7394758-9918293",
      shipments |-> <<[date |-> "1998-11-05", items |-> <<"Brave New World">>]>>],
     [id |-> "002-7394758-9918293",
      shipments |-> <<[date |-> "1998-11-06", items |-> <<"Brave New World", "Island">>]>>],
     [id |-> "111-2223334-4445556",
      shipments |-> <<[date |-> "2017-01-04", items |-> <<"Island">>],
                      [date |-> "2017-01-05", items |-> <<"Brave New World">>]>>]}

NoStoreCall == [op |-> "none", key |-> NoValue, value |-> NoValue, returned |-> NoValue]

IdleStore ==
    [calls |-> 0, last |-> NoStoreCall, written |-> [k \in StoreKeys |-> NoValue],
     saved |-> <<>>,
     orders |-> {}, shipments |-> {}, order_items |-> {},
     shipmentIds |-> 0, itemIds |-> 0]

\* saveOrderItems(db, order, shipmentID): order.shipments.forEach(... shipment.items.forEach ...)
RECURSIVE saveOrderItems(_, _, _, _, _)
saveOrderItems(s, order, shipmentID, k, i) ==
    IF k > Len(order.shipments) THEN s
    ELSE IF i > Len(order.shipments[k].items) THEN saveOrderItems(s, order, shipmentID, k + 1, 1)
    ELSE saveOrderItems(
             [s EXCEPT !.itemIds = @ + 1,
                       !.order_items = @ \cup {[id |-> s.itemIds + 1, order_id |-> order.id,
                                                 shipment_id |-> shipmentID,
                                                 name |-> order.shipments[k].items[i]]}],
             order, shipmentID, k, i + 1)

\* saveOrderShipments: order.shipments.forEach, from shipment k on
RECURSIVE insertShipments(_, _, _)
insertShipments(s, order, k) ==
    IF k > Len(order.shipments) THEN s
    ELSE LET lastInsertRowid == s.shipmentIds + 1
             inserted == [s EXCEPT !.shipmentIds = lastInsertRowid,
                                   !.shipments = @ \cup {[id |-> lastInsertRowid,
                                                          order_id |-> order.id,
                                                          date |-> order.shipments[k].date]}]
         IN insertShipments(saveOrderItems(inserted, order, lastInsertRowid, 1, 1), order, k + 1)

saveOrderShipments(s, order) ==
    insertShipments([s EXCEPT !.order_items = {r \in @ : r.order_id # order.id},
                              !.shipments = {r \in @ : r.order_id # order.id}],
                    order, 1)

\* saveOrderData: INSERT OR REPLACE INTO orders, whose primary key is id
saveOrderData(s, order) ==
    [s EXCEPT !.orders = {r \in @ : r.id # order.id} \cup {[id |-> order.id, complete |-> 1]}]

saveOrder(s, order) == saveOrderShipments(saveOrderData(s, order), order)

StoreReady == pc = "store" /\ store.calls < MaxStoreCalls

StoreUpdateCache ==
    /\ StoreReady
    /\ \E key \in StoreKeys, sortsFirst \in BOOLEAN : \E value \in Served(KeyURL(key)) :
          /\ cache' = datastoreUpdateCache(cache, key, value, sortsFirst)
          /\ store' = [store EXCEPT !.calls = @ + 1,
                                    !.written[key] = value,
                                    !.last = [op |-> "updateCache", key |-> key, value |-> value,
                                              returned |-> NoValue]]
    /\ UNCHANGED <<build, pc, savedOrders, headless, scraper, options, prompts, cmd, run, ppc, err,
                   builder, parser, money, nav, engine, tokenizer>>

StoreCheckCache ==
    /\ StoreReady
    /\ \E key \in StoreKeys :
          store' = [store EXCEPT !.calls = @ + 1,
                                 !.last = [op |-> "checkCache", key |-> key, value |-> NoValue,
                                           returned |-> datastoreCheckCache(cache, key)]]
    /\ UNCHANGED <<build, pc, cache, savedOrders, headless, scraper, options, prompts, cmd, run, ppc,
                   err, builder, parser, money, nav, engine, tokenizer>>

StoreSaveOrder ==
    /\ StoreReady
    /\ \E order \in StoreOrders :
          store' = [saveOrder(store, order) EXCEPT
                       !.calls = @ + 1,
                       !.saved = <<order>>,
                       !.last = [op |-> "saveOrder", key |-> order.id, value |-> NoValue,
                                 returned |-> NoValue]]
    /\ UNCHANGED <<build, pc, cache, savedOrders, headless, scraper, options, prompts, cmd, run, ppc,
                   err, builder, parser, money, nav, engine, tokenizer>>

(***************************************************************************)
(* Specifications                                                           *)
(***************************************************************************)
IdleCmd == [modes |-> <<>>, open |-> {}, fixture |-> NoValue, outcome |-> "running"]

SubcommandOptions(i, f, t) ==
    [interactionAllowed |-> i, fromYear |-> f, toYear |-> t,
     onBeforeYearScrape |-> [y \in Years |-> onBeforeYearScrape(f, t, y)],
     onBeforeOrderScrape |-> [o \in OrderIds |-> onBeforeOrderScrape(f, t, o)]]

\* --from and --to, by their years (parseOptions swaps them if from > to).
OptionChoices ==
    {SubcommandOptions(i, ft[1], ft[2]) :
        i \in BOOLEAN, ft \in {<<1, 1>>, <<1, 2>>, <<2, 2>>}}

InitCommon ==
    /\ savedOrders = {}
    /\ headless = TRUE
    /\ prompts = 0
    /\ cmd = IdleCmd
    /\ run = IdleRun
    /\ ppc = IdlePPC
    /\ err = NoErr
    /\ builder = NewBuilder
    /\ parser = IdleParser
    /\ money = IdleMoney
    /\ nav = IdleNav
    /\ store = IdleStore
    /\ tokenizer = IdleTokenizer
    /\ engine = IdleEngine

\* The scrape subcommand running the dist build of the Scraper.
Init ==
    /\ build = "dist"
    /\ pc = "cmd_loop"
    /\ scraper = NoScraper
    /\ options \in OptionChoices
    \* this build never reads or writes the cache entry of the years page
    /\ cache \in InitialCaches(SeenURLs)
    /\ InitCommon

ScraperNext ==
    \/ ScrapeStart \/ PPCheckCache \/ PPParseCached \/ PPFetch
    \/ GotYears \/ YearNext \/ PageNext \/ GotPage \/ OrderNext \/ GotOrder

Next == CmdAttempt \/ CmdResult \/ CmdPromptAnswered \/ PPBackoff \/ ScraperNext

Spec == Init /\ [][Next]_vars

\* A caller awaiting scrape() of the src/scraper.ts Scraper.
InitTs ==
    /\ build = "ts"
    /\ pc = "scrape_start"
    /\ scraper = createScraper(TRUE)
    /\ options = SubcommandOptions(TRUE, 0, 2)
    /\ cache \in InitialCaches(SeenURLs \cup {ORDERS_URL})
    /\ InitCommon

\* The caller of scrape() closes the scraper once scrape() has settled.
ScraperClose ==
    /\ pc = "scrape_settled"
    /\ pc' = "closed"
    /\ scraper' = close(scraper)
    /\ UNCHANGED <<nav, money, parser, builder, build, cache, savedOrders, run, ppc, err, cmdVars, engine, tokenizer, store>>

NextTs == ScraperNext \/ ScraperClose

SpecTs == InitTs /\ [][NextTs]_vars

\* A caller of the dist build's scrape() with hooks of its own: each hook
\* answers one of its actions, or nothing, for each year and order.
YearHookReturns ==
    {"STOP_SCRAPING", "SKIP_YEAR", "SCRAPE_YEAR", "SCRAPE_YEAR_NO_CACHE", NoValue}
OrderHookChoices ==
    {[o \in OrderIds |-> "SCRAPE_ORDER"],
     [o \in OrderIds |-> CASE o = 2 -> "SKIP_ORDER"
                            [] o = 4 -> "STOP_SCRAPING"
                            [] OTHER -> "SCRAPE_ORDER"]}
HookOptions ==
    {[interactionAllowed |-> FALSE, fromYear |-> 0, toYear |-> 2,
      onBeforeYearScrape |-> y, onBeforeOrderScrape |-> o] :
        y \in [Years -> YearHookReturns], o \in OrderHookChoices}

InitScraper ==
    /\ build = "dist"
    /\ pc = "scrape_start"
    /\ scraper = createScraper(TRUE)
    /\ options \in HookOptions
    \* an earlier run has left every page it saw in the cache
    /\ cache = [k \in Keys |-> CacheChoice(KeyURL(k),
                                  IF KeyURL(k) \in SeenURLs THEN "site" ELSE "absent")]
    /\ InitCommon

NextScraper == PPBackoff \/ ScraperNext \/ ScraperClose

SpecScraper == InitScraper /\ [][NextScraper]_vars

\* A caller of an OrderBuilder that is in one of the given states.
InitBuilderWith(builders) ==
    /\ build = "dist"
    /\ pc = "builder"
    /\ scraper = NoScraper
    /\ options = SubcommandOptions(TRUE, 0, 2)
    /\ cache = [k \in Keys |-> NoValue]
    /\ savedOrders = {}
    /\ headless = TRUE
    /\ prompts = 0
    /\ cmd = IdleCmd
    /\ run = IdleRun
    /\ ppc = IdlePPC
    /\ err = NoErr
    /\ builder \in builders
    /\ parser = IdleParser
    /\ money = IdleMoney
    /\ nav = IdleNav
    /\ store = IdleStore
    /\ tokenizer = IdleTokenizer
    /\ engine = IdleEngine

\* A caller of an OrderBuilder that is new or has been given its amounts.
InitBuilder == InitBuilderWith({NewBuilder, WithAmounts, WithoutTax})

NextBuilder == BuilderCall \/ BuilderBuild

SpecBuilder == InitBuilder /\ [][NextBuilder]_vars

\* A caller that adds payments to an OrderBuilder holding its required fields.
InitPayments == InitBuilderWith({Complete, WithPayment})

NextPayments == PaymentCall \/ BuilderBuild

SpecPayments == InitPayments /\ [][NextPayments]_vars

\* A caller that fills the shipments of a new OrderBuilder.
InitShipments == InitBuilderWith({NewBuilder})

NextShipments == ShipmentCall

SpecShipments == InitShipments /\ [][NextShipments]_vars

\* A caller of parseInvoiceHTML: an invoice is parsed, then another one, then
\* the first one again.
InitParserWith(schedules) ==
    /\ build = "dist"
    /\ pc = "parse_start"
    /\ scraper = NoScraper
    /\ options = SubcommandOptions(TRUE, 0, 2)
    /\ cache = [k \in Keys |-> NoValue]
    /\ savedOrders = {}
    /\ headless = TRUE
    /\ prompts = 0
    /\ cmd = IdleCmd
    /\ run = IdleRun
    /\ ppc = IdlePPC
    /\ err = NoErr
    /\ builder = NewBuilder
    /\ \E schedule \in schedules : parser = [IdleParser EXCEPT !.schedule = schedule]
    /\ money = IdleMoney
    /\ nav = IdleNav
    /\ store = IdleStore
    /\ tokenizer = IdleTokenizer
    /\ engine = IdleEngine

\* each invoice is parsed, then another, then the first again
InitParser == InitParserWith({<<x, y, x>> : x \in Invoices, y \in Invoices})

NextParser == ParseStart \/ ParseToken \/ ParseBuild

SpecParser == InitParser /\ [][NextParser]_vars

\* invoices with a shipping address are parsed, one each
InitShipping == InitParserWith({<<invoice>> : invoice \in ShippingInvoices})

SpecShipping == InitShipping /\ [][NextParser]_vars

\* A caller of money.ts with one valid amount text.
InitMoney ==
    /\ build = "dist"
    /\ pc = "money"
    /\ scraper = NoScraper
    /\ options = SubcommandOptions(TRUE, 0, 2)
    /\ cache = [k \in Keys |-> NoValue]
    /\ savedOrders = {}
    /\ headless = TRUE
    /\ prompts = 0
    /\ cmd = IdleCmd
    /\ run = IdleRun
    /\ ppc = IdlePPC
    /\ err = NoErr
    /\ builder = NewBuilder
    /\ parser = IdleParser
    /\ \E s \in Amounts : MatchesMoney(TextChars(s)) /\ money = [IdleMoney EXCEPT !.amount = s]
    /\ nav = IdleNav
    /\ store = IdleStore
    /\ tokenizer = IdleTokenizer
    /\ engine = IdleEngine

NextMoney == MoneyParse \/ MoneyFormat \/ MoneyReparse \/ MoneyNegate

SpecMoney == InitMoney /\ [][NextMoney]_vars

\* A Scraper just made, some time after 1970, and the callers of its
\* navigatePage, one call at a time.
InitNav ==
    /\ build = "dist"
    /\ pc = "nav"
    /\ scraper = NoScraper
    /\ options = SubcommandOptions(TRUE, 0, 2)
    /\ cache = [k \in Keys |-> NoValue]
    /\ savedOrders = {}
    /\ headless = TRUE
    /\ prompts = 0
    /\ cmd = IdleCmd
    /\ run = IdleRun
    /\ ppc = IdlePPC
    /\ err = NoErr
    /\ builder = NewBuilder
    /\ parser = IdleParser
    /\ money = IdleMoney
    /\ nav = [IdleNav EXCEPT !.now = maxDelay + TickMs]
    /\ store = IdleStore
    /\ tokenizer = IdleTokenizer
    /\ engine = IdleEngine

NextNav == NavElapse \/ NavigatePage \/ NavGoto

SpecNav == InitNav /\ [][NextNav]_vars

InitEngine ==
    /\ build = "dist"
    /\ pc = "engine"
    /\ scraper = NoScraper
    /\ options = SubcommandOptions(TRUE, 0, 2)
    /\ cache = [k \in Keys |-> NoValue]
    /\ savedOrders = {}
    /\ headless = TRUE
    /\ prompts = 0
    /\ cmd = IdleCmd
    /\ run = IdleRun
    /\ ppc = IdlePPC
    /\ err = NoErr
    /\ builder = NewBuilder
    /\ parser = IdleParser
    /\ money = IdleMoney
    /\ nav = IdleNav
    /\ store = IdleStore
    /\ tokenizer = IdleTokenizer
    /\ \E args \in EnginePrograms, tokens \in TokenLists :
          engine = [IdleEngine EXCEPT !.args = args, !.tokens = tokens, !.phase = "loop"]

NextEngine == EngineToken \/ EngineReturn

SpecEngine == InitEngine /\ [][NextEngine]_vars

InitTokenizer ==
    /\ build = "dist"
    /\ pc = "tokenizer"
    /\ scraper = NoScraper
    /\ options = SubcommandOptions(TRUE, 0, 2)
    /\ cache = [k \in Keys |-> NoValue]
    /\ savedOrders = {}
    /\ headless = TRUE
    /\ prompts = 0
    /\ cmd = IdleCmd
    /\ run = IdleRun
    /\ ppc = IdlePPC
    /\ err = NoErr
    /\ builder = NewBuilder
    /\ parser = IdleParser
    /\ money = IdleMoney
    /\ nav = IdleNav
    /\ store = IdleStore
    /\ engine = IdleEngine
    /\ \E document \in Documents :
          tokenizer = [IdleTokenizer EXCEPT !.document = document, !.phase = "visiting"]

NextTokenizer == VisitNode \/ ChunksReturn

SpecTokenizer == InitTokenizer /\ [][NextTokenizer]_vars

\* A caller of a DataStore on a new database file.
InitStore ==
    /\ build = "dist"
    /\ pc = "store"
    /\ scraper = NoScraper
    /\ options = SubcommandOptions(TRUE, 0, 2)
    /\ cache = [k \in Keys |-> NoValue]
    /\ savedOrders = {}
    /\ headless = TRUE
    /\ prompts = 0
    /\ cmd = IdleCmd
    /\ run = IdleRun
    /\ ppc = IdlePPC
    /\ err = NoErr
    /\ builder = NewBuilder
    /\ parser = IdleParser
    /\ money = IdleMoney
    /\ nav = IdleNav
    /\ engine = IdleEngine
    /\ tokenizer = IdleTokenizer
    /\ store = IdleStore

NextStore == StoreUpdateCache \/ StoreCheckCache \/ StoreSaveOrder

SpecStore == InitStore /\ [][NextStore]_vars

(***************************************************************************)
(* Properties                                                               *)
(***************************************************************************)
OrderOfURL(url) == CHOOSE i \in OrderIds : InvoiceURL(i) = url
CallEnded == pc \in {"ppc_return", "scrape_settled"}

\* C1: when the cache check of parsePageContent returns content and the
\* handler parses that content without error, the call returns that result
\* without a single navigation (no attempt, no wait) and without a write to
\* the cache: the entry still holds exactly what the check read.
C1_CachedResultNeedsNoFetchNoWrite ==
    (pc = "ppc_return" /\ ppc.fromCache) =>
        /\ ppc.navs = 0
        /\ ppc.browserAttempts = 0
        /\ ppc.delays = <<>>
        /\ ppc.writes = 0
        /\ cache[cacheKey(ppc.url)] = ppc.entry

C1_Witness ==
    /\ pc = "ppc_return"
    /\ ppc.fromCache
    /\ ppc.kind = "list"
    /\ ppc.entry = SitePage(ppc.url)
    /\ ppc.result.links # <<>>

\* C2: a call makes at most 5 live-fetch attempts; the wait before attempt
\* n (n >= 2) is (n - 1) * 300 ms; a successful attempt ends the call; an
\* error leaves the call only from the 5th attempt, and is that attempt's.
C2_FiveAttemptsLinearBackoff ==
    /\ ppc.browserAttempts <= 5
    /\ ppc.navs = ppc.browserAttempts
    /\ \A n \in 1..Len(ppc.delays) : ppc.delays[n] = n * 300
    /\ pc = "ppc_fetch" => Len(ppc.delays) = ppc.browserAttempts /\ ppc.browserAttempts >= 1
    /\ (pc = "ppc_loop" /\ ppc.browserAttempts > 0) => Len(ppc.delays) = ppc.browserAttempts - 1
    /\ (pc = "ppc_return" /\ ~ppc.fromCache) => Len(ppc.delays) = ppc.browserAttempts - 1
    /\ (pc = "scrape_settled" /\ ppc.navs > 0) =>
            /\ ppc.browserAttempts = 5
            /\ err.attempt = 5
            /\ ppc.delays = <<300, 600, 900, 1200>>

C2_Witness ==
    /\ pc = "scrape_settled"
    /\ err.kind = "nav"
    /\ err.attempt = 5
    /\ ppc.delays = <<300, 600, 900, 1200>>

\* C3: only navigation failures are caught and retried inside
\* parsePageContent; a sign-in-required or an invoice-parse failure of a
\* live-fetched page is never caught there.
C3_OnlyNavigationFailuresRetried ==
    ppc.caught \in {"none", "nav"}

\* C4: a parse failure of cached content, of a list page or of an invoice
\* page, never rejects scrape(): the call that met it goes on to a live fetch
\* of the same URL.
C4_CachedParseFailureRecoveredByFetch ==
    /\ pc = "scrape_settled" => ~err.fromCached
    /\ (ppc.cachedParseFailed /\ CallEnded) => ppc.navs >= 1

\* C5: a live fetch writes the content to the cache, under the key of the
\* requested URL, only if the page's URL after navigation equals the
\* requested URL; when they differ the entry is as the cache check found it.
C5_WriteBackOnlyWhenURLUnchanged ==
    (pc = "ppc_return" /\ ~ppc.fromCache) =>
        /\ ppc.writes > 0 =>
              /\ ppc.resolved = ppc.url
        /\ ppc.writes <= 1
        /\ ppc.resolved # ppc.url =>
              /\ ppc.writes = 0
              /\ cache[cacheKey(ppc.url)] = ppc.entry

C5_Witness ==
    /\ pc = "ppc_return"
    /\ ~ppc.fromCache
    /\ ppc.kind = "list"
    /\ ppc.resolved = SignInURL
    /\ ppc.entry # NoValue
    /\ ppc.result.links # <<>>
    /\ cache[cacheKey(ppc.url)] = ppc.entry

\* C6 as stated: while a year earlier than the current one is scraped and its
\* order-list page is in the cache, no live fetch of that page occurs.
C6_PriorYearCachedListNeverFetched ==
    (ppc.kind = "list" /\ run.year < CurrentYear /\ ppc.entry # NoValue) => ppc.navs = 0

\* C6 amended: while a year earlier than the current one is scraped and its
\* order-list page is in the cache with at least one invoice link on it, no
\* live fetch of that page occurs and the call returns the cached links,
\* whether or not the invoices are cached.
C6_PriorYearParsableCachedListNeverFetched ==
    (ppc.kind = "list" /\ run.year < CurrentYear /\ findInvoiceURLs(ppc.entry) # <<>>) =>
        /\ ppc.navs = 0
        /\ pc # "scrape_settled"
        /\ pc = "ppc_return" => ppc.fromCache /\ ppc.result.links = findInvoiceURLs(ppc.entry)

C6_Witness ==
    /\ pc = "ppc_return"
    /\ ppc.kind = "list"
    /\ run.year < CurrentYear
    /\ ppc.fromCache
    /\ \E i \in 1..Len(ppc.result.links) : cache[cacheKey(ppc.result.links[i])] = NoValue

\* C7: for the current year the cached order-list page is the result only
\* if every invoice URL on it has cached content; if one of them has none,
\* the cache check yields nothing and the call ends only after a live fetch.
C7_CurrentYearListReusedOnlyIfInvoicesCached ==
    LET links == findInvoiceURLs(ppc.entry)
        allCached == \A i \in 1..Len(links) : cache[cacheKey(links[i])] # NoValue
    IN (ppc.kind = "list" /\ run.year = CurrentYear) =>
          /\ ppc.fromCache => allCached
          /\ ppc.cachedContent # NoValue => allCached
          /\ (~allCached /\ CallEnded) => ppc.navs >= 1

C7_Witness ==
    /\ pc = "ppc_return"
    /\ ppc.kind = "list"
    /\ run.year = CurrentYear
    /\ ppc.entry = ListHTML(CurrentYear, 1)
    /\ cache[cacheKey(InvoiceURL(1))] = NoValue
    /\ cache[cacheKey(InvoiceURL(2))] # NoValue
    /\ ppc.navs = 1

\* C8: scrapeOrder of an order dated less than 30 days before now never ends
\* on cached content: whatever the cache holds, the call ends only after a
\* live fetch of the invoice page.
C8_RecentOrderAlwaysFetchedLive ==
    (ppc.kind = "invoice" /\ OrderAge(OrderOfURL(ppc.url)) < 30 * SecondsPerDay /\ CallEnded) =>
        /\ ~ppc.fromCache
        /\ ppc.navs >= 1

\* C9 as stated: the invoice content of an order younger than 30 days is
\* never written to the cache.
C9_YoungInvoiceNeverWritten ==
    (ppc.kind = "invoice" /\ ppc.writes > 0) => OrderAge(OrderOfURL(ppc.url)) >= 30 * SecondsPerDay

\* C9 amended: cached invoice content is served only once the order is at
\* least 30 days old; the content of a younger order is written after its
\* live fetch succeeds, but the cache check never hands it out.
C9_YoungInvoiceWrittenButNeverServed ==
    ppc.kind = "invoice" =>
        /\ (ppc.cachedContent # NoValue \/ ppc.fromCache) =>
              /\ parseInvoiceHTML(ppc.entry).ok
              /\ parseInvoiceHTML(ppc.entry).age >= 30 * SecondsPerDay
        /\ (pc = "ppc_return" /\ ~ppc.fromCache /\ ppc.resolved = ppc.url) =>
              /\ ppc.writes = 1
              /\ cache[cacheKey(ppc.url)] = InvoiceHTML(ppc.result.orderId)

C9_Witness ==
    /\ pc = "ppc_return"
    /\ ppc.kind = "invoice"
    /\ ppc.entry = InvoiceHTML(1)
    /\ OrderAge(1) < 30 * SecondsPerDay
    /\ ~ppc.fromCache
    /\ ppc.writes = 1
    /\ cache[cacheKey(InvoiceURL(1))] = InvoiceHTML(1)

\* C10: the subcommand's first attempt is headless; after a failed headless
\* attempt the headless scraper is closed before the next one is created,
\* every later attempt is interactive, and no attempt is headless again.
C10_HeadlessFirstThenInteractiveOnly ==
    /\ Len(cmd.modes) >= 1 => cmd.modes[1] = "headless"
    /\ \A i \in 2..Len(cmd.modes) : cmd.modes[i] = "interactive"
    /\ Cardinality(cmd.open) <= 1
    /\ scraper.exists => cmd.open = {Mode(scraper.headless)}
    /\ ~scraper.exists => cmd.open = {}
    /\ Len(cmd.modes) >= 2 => ~headless
    /\ (pc = "cmd_loop" /\ Len(cmd.modes) = 1) => ~headless /\ ~scraper.exists
    /\ pc = "scrape_start" => scraper.exists /\ scraper.headless = (Len(cmd.modes) = 1)

C10_Witness ==
    /\ pc = "scrape_start"
    /\ err.kind = "signin"
    /\ cmd.modes = <<"headless", "interactive">>
    /\ cmd.open = {"interactive"}
    /\ ~scraper.headless
    /\ ~scraper.context

\* C11 as stated: with interaction forbidden, a sign-in-required failure ends
\* the run at once: no prompt and no scrape attempt follows it.
C11_NoInteractionFailsAtOnce ==
    (~options.interactionAllowed /\ err.kind = "signin") =>
        /\ pc \in {"scrape_settled", "cmd_failed"}
        /\ prompts = 0

\* C11 amended: with interaction forbidden the user is never prompted; the
\* sign-in-required failure of the headless attempt is answered by one
\* interactive attempt, and the sign-in-required failure of an interactive
\* attempt ends the run with an error, the scraper closed, no attempt after.
C11_NoInteractionFailsAfterInteractiveAttempt ==
    ~options.interactionAllowed =>
        /\ prompts = 0
        /\ pc # "cmd_prompt"
        /\ Len(cmd.modes) <= 2
        /\ (err.kind = "signin" /\ pc \in {"cmd_loop", "scrape_start"}) =>
              cmd.modes \in {<<"headless">>, <<"headless", "interactive">>}
        /\ (err.kind = "signin" /\ pc \notin {"cmd_loop", "scrape_start", "scrape_settled"}) =>
              /\ pc = "cmd_failed"
              /\ cmd.outcome = "no-interaction"
              /\ cmd.modes = <<"headless", "interactive">>
              /\ ~scraper.exists

C11_Witness ==
    /\ ~options.interactionAllowed
    /\ pc = "cmd_failed"
    /\ err.kind = "signin"
    /\ cmd.outcome = "no-interaction"
    /\ cmd.modes = <<"headless", "interactive">>

\* C12: a run that ends on an invoice parse failure has written the raw
\* content that failed to parse as a fixture before its error is raised.
C12_ParseFailurePreservesContent ==
    (pc = "cmd_failed" /\ err.kind = "parse") => cmd.fixture = err.html

\* The year a page of the site belongs to (-1 for the years page).
YearOfURL(url) ==
    CASE url \in InvoiceURLs -> OrderYear(OrderOfURL(url))
      [] url = Page2URL -> 0
      [] url = ORDERS_URL -> -1
      [] OTHER -> CHOOSE y \in Years : YearURL(y) = url

\* C13: scrape() asks the per-year hook about the years in list order, each
\* at most once and before any page of that year is acquired; once the hook
\* has answered STOP_SCRAPING it is not asked again, and no page of that year
\* or of a later year of the list is acquired.
C13_YearHookFirstAndStopIsFinal ==
    LET hooked == run.hooked
        stops == {i \in 1..Len(hooked) :
                     options.onBeforeYearScrape[hooked[i]] = "STOP_SCRAPING"}
    IN /\ Len(hooked) <= Len(run.years)
       /\ \A i \in 1..Len(hooked) : hooked[i] = run.years[i]
       /\ \A j \in 1..Len(run.visited) :
             YearOfURL(run.visited[j]) # -1 =>
                \E i \in 1..Len(hooked) : hooked[i] = YearOfURL(run.visited[j])
       /\ run.continueScraping <=> stops = {}
       /\ \A i \in stops :
             /\ i = Len(hooked)
             /\ \A j \in 1..Len(run.visited), k \in i..Len(run.years) :
                   YearOfURL(run.visited[j]) # run.years[k]

C13_Witness ==
    /\ pc = "scrape_settled"
    /\ err.kind = "none"
    /\ options.onBeforeYearScrape[2] = "SCRAPE_YEAR"
    /\ options.onBeforeYearScrape[1] = "STOP_SCRAPING"
    /\ options.onBeforeYearScrape[0] = "SCRAPE_YEAR"
    /\ run.hooked = <<2, 1>>
    /\ run.visited = <<ORDERS_URL, YearURL(2), InvoiceURL(1), InvoiceURL(2)>>

\* C14: an order for which the per-order hook answers SKIP_ORDER is not
\* scraped, and once the hook has answered STOP_SCRAPING for an order neither
\* that order nor any order after it is scraped.
C14_OrderHookObeyed ==
    \A j \in 1..Len(run.visited) :
        run.visited[j] \in InvoiceURLs =>
            /\ options.onBeforeOrderScrape[OrderOfURL(run.visited[j])] = "SCRAPE_ORDER"
            /\ \A i \in 1..j :
                  run.visited[i] \in InvoiceURLs =>
                     options.onBeforeOrderScrape[OrderOfURL(run.visited[i])] # "STOP_SCRAPING"

\* C15: during scrape() at most one page acquisition is in progress: while
\* one runs it is the only one unsettled, and the steps that choose the next
\* order, page or year (and the end of scrape()) are taken with none
\* unsettled.
C15_OneAcquisitionAtATime ==
    /\ Cardinality(run.inflight) <= 1
    /\ pc \in {"ppc_check", "ppc_loop", "ppc_fetch", "ppc_return"} =>
          run.inflight = {ppc.url} /\ run.visited[Len(run.visited)] = ppc.url
    /\ pc \in {"order_next", "page_next", "year_next"} => run.inflight = {}
    /\ (pc = "scrape_settled" /\ err.kind = "none") => run.inflight = {}

C15_Witness ==
    /\ pc = "ppc_fetch"
    /\ ppc.url = InvoiceURL(5)
    /\ run.inflight = {InvoiceURL(5)}
    /\ run.visited = <<ORDERS_URL, YearURL(1), InvoiceURL(3), YearURL(0),
                       InvoiceURL(4), Page2URL, InvoiceURL(5)>>

\* The order-list pages of a year from a page on, each followed by the
\* invoice links on it in markup order, as the site lays them out.
RECURSIVE SiteOrder(_)
SiteOrder(url) ==
    IF url = NoURL THEN <<>>
    ELSE <<url>> \o findInvoiceURLs(SitePage(url)) \o SiteOrder(nextPageLink(SitePage(url)))

IsPrefix(a, b) == Len(a) <= Len(b) /\ \A i \in 1..Len(a) : a[i] = b[i]
VisitedOfYear(y) == SelectSeq(run.visited, LAMBDA u : YearOfURL(u) = y)

\* C16: within a year the pages are acquired in the site's order: an
\* order-list page, then the orders of that page in the order of their
\* invoice links, then the page its next-page link names, and so on.
C16_PagesAndOrdersInSiteOrder ==
    \A y \in Years : IsPrefix(VisitedOfYear(y), SiteOrder(YearURL(y)))

C16_Witness ==
    /\ pc = "scrape_settled"
    /\ err.kind = "none"
    /\ run.visited = <<ORDERS_URL, YearURL(2), InvoiceURL(1), InvoiceURL(2),
                       YearURL(1), InvoiceURL(3),
                       YearURL(0), InvoiceURL(4), Page2URL, InvoiceURL(5)>>

\* C17: a Scraper has no browser context until its first live fetch (pages
\* served from the cache launch none), never has two contexts open, and
\* after close() has none.
C17_ContextLazyUniqueAndClosed ==
    /\ scraper.browsers \in {0, 1}
    /\ scraper.context <=> scraper.browsers = 1
    /\ ~scraper.fetched => scraper.browsers = 0
    /\ (ppc.fromCache /\ ppc.navs = 0 /\ ~scraper.fetched) => ~scraper.context
    /\ pc = "closed" => scraper.browsers = 0

C17_Witness ==
    /\ pc = "closed"
    /\ scraper.fetched
    /\ scraper.browsers = 0
    /\ ~scraper.context
    /\ err.kind = "none"
    /\ Len(run.visited) = 10

\* C18: whenever an OrderBuilder setter is called while the field it targets
\* holds a value different from the argument, the call fails with an error and
\* the value held is not overwritten.
C18_DifferentValueAlwaysFails ==
    (/\ builder.last.setter \in Setters
     /\ builder.last.before # Unset
     /\ builder.last.before # <<builder.last.arg>>)
        => (builder.last.threw /\ ~builder.last.overwrote)

\* C19: whenever an OrderBuilder setter is called while the field it targets
\* already holds the argument, the call does not fail, changes no recorded
\* field and does not notify the attribute-captured observer.
C19_EqualValueIsNoOp ==
    (/\ builder.last.setter \in Setters
     /\ builder.last.before = <<builder.last.arg>>)
        => (/\ ~builder.last.threw
            /\ ~builder.last.changed
            /\ builder.last.notified = 0)

\* C20: build() fails whenever one of id, date, subtotal, tax, total has not
\* been set, and an Order it returns holds all five.
RequiredFields == {"id", "date", "subtotal", "tax", "total"}

C21_InferredTaxBuilds ==
    (/\ builder.last.setter = "build"
     /\ builder.inferTaxes
     /\ builder.order.tax = Unset
     /\ \A f \in {"id", "date", "subtotal", "total", "currency", "shippingCost"} :
           builder.order[f] # Unset
     /\ IsISODate(builder.order.date[1])
     /\ ~MissingInShipments(builder))
        => /\ builder.built # Unset
           /\ builder.built[1].taxCents =
                <<builder.order.totalCents[1] - builder.order.subtotalCents[1]
                    - builder.order.shippingCostCents[1]>>

\* C23: when a payment is assumed to cover the full amount, build() of an order
\* with more than one payment, one of them without an amount, fails.
C23_AmbiguousPaymentsFail ==
    (/\ builder.last.setter = "build"
     /\ builder.assumePaymentCoversFullAmount
     /\ Len(builder.payments) > 1
     /\ \E i \in 1..Len(builder.payments) : builder.payments[i].amount = Unset)
        => (builder.last.threw /\ builder.built = Unset)

C23_Witness ==
    /\ builder.last.setter = "build"
    /\ builder.assumePaymentCoversFullAmount
    /\ Len(builder.payments) = 2
    /\ builder.payments[1].amount = Unset
    /\ builder.payments[2].amount # Unset
    /\ builder.error = <<"Assuming payment covers full amount but multiple payments are set">>

\* The result of parsing the j-th invoice of the schedule.
ResultOf(j) == parser.results[j]
Parsed(invoice) == {j \in 1..Len(parser.results) : parser.schedule[j] = invoice}

\* C22 (as stated): with gift-card adjustment active, the invoice with
\* 'Order Total: $16.98' and 'Gift Card Amount: -$18.46' reports total cents 1846.
C22_GiftCardTotal1846 ==
    \A j \in Parsed(InvoiceGiftCard) :
        /\ ResultOf(j).built # Unset
        /\ ResultOf(j).built[1].totalCents = <<1846>>

\* C22 (amended): that invoice reports the nominal total increased by the sum
\* of the gift-card payments, 1698 + 1846 = 3544 cents, not 1698.
C22_GiftCardTotalAdded ==
    \A j \in Parsed(InvoiceGiftCard) :
        /\ ResultOf(j).built # Unset
        /\ ResultOf(j).built[1].totalCents = <<1698 + 1846>>
        /\ ResultOf(j).built[1].total = <<"$35.44">>

C22_Witness ==
    \E j \in Parsed(InvoiceGiftCard) :
        /\ ResultOf(j).built # Unset
        /\ Len(ResultOf(j).built[1].payments) = 1
        /\ ResultOf(j).built[1].payments[1].type = "gift_card"
        /\ ResultOf(j).built[1].payments[1].amountCents = <<1846>>

\* The sum of item price cents x item quantity over the items from the i-th on.
RECURSIVE ItemsCents(_, _)
ItemsCents(items, i) ==
    IF i > Len(items) THEN 0
    ELSE items[i].priceCents[1] * items[i].quantity[1] + ItemsCents(items, i + 1)
RECURSIVE ShipmentsCents(_, _)
ShipmentsCents(shipments, i) ==
    IF i > Len(shipments) THEN 0
    ELSE ItemsCents(shipments[i].items, 1) + ShipmentsCents(shipments, i + 1)
HasItems(order) == \E i \in 1..Len(order.shipments) : order.shipments[i].items # <<>>

\* C24: for every order built successfully that has items, the sum over all
\* shipments of item price cents x item quantity equals the subtotal cents.
C24_ItemsSumToSubtotal ==
    \A j \in 1..Len(parser.results) :
        (ResultOf(j).built # Unset /\ HasItems(ResultOf(j).built[1]))
            => ShipmentsCents(ResultOf(j).built[1].shipments, 1)
                 = ResultOf(j).built[1].subtotalCents[1]

\* C25: parsing the 1998 token sequence ('Amazon.com order number: ...',
\* 'Order Placed: November 5, 1998', 'Items Ordered', '1 of: Brave New World,
\* Aldous Huxley', '$8.00', 'Item(s) Subtotal: $77.15', 'Shipping & Handling:
\* $11.55', 'Sales Tax: $7.63', 'Total for this Order: $96.33') yields an order
\* with that id, date 1998-11-05, one shipment with one item (quantity 1, price
\* cents 800), subtotal 7715, tax 763, shipping cost 1155 and total 9633 cents.
C25_Invoice1998Parses ==
    \A j \in Parsed(Invoice1998) :
        /\ ResultOf(j).built # Unset
        /\ LET order == ResultOf(j).built[1]
           IN /\ order.id = <<"002-7394758-9918293">>
              /\ order.date = <<"1998-11-05">>
              /\ Len(order.shipments) = 1
              /\ Len(order.shipments[1].items) = 1
              /\ order.shipments[1].items[1].quantity = <<1>>
              /\ order.shipments[1].items[1].priceCents = <<800>>
              /\ order.subtotalCents = <<7715>>
              /\ order.taxCents = <<763>>
              /\ order.shippingCostCents = <<1155>>
              /\ order.totalCents = <<9633>>

\* C26: parsing keeps no state between runs: two parses of the same invoice
\* content, whatever was parsed between or before them, give identical orders
\* or the same failure.
C26_ParsingDeterministic ==
    \A i, j \in 1..Len(parser.results) :
        parser.schedule[i] = parser.schedule[j] => ResultOf(i) = ResultOf(j)

C26_Witness ==
    /\ pc = "parsed"
    /\ Len(parser.results) = 3
    /\ parser.schedule[1] = parser.schedule[3]
    /\ parser.schedule[1] # parser.schedule[2]
    /\ ResultOf(1).built # Unset
    /\ ResultOf(2).error # Unset
    /\ ResultOf(3) = ResultOf(1)

\* C27: for every valid amount text s, parsing the formatted result of parsing
\* s gives the same cents as parsing s.
C27_FormatParseRoundTrip ==
    money.reparsed # <<>>
        => /\ ~money.reparsed[1].nan
           /\ money.reparsed[1].cents = money.parsed[1].cents

\* C28: for every positive amount a the cents of '-a' is the negation of the
\* cents of a.
C28_SignAppliedToBothParts ==
    (/\ money.parsed # <<>>
     /\ money.negated # <<>>
     /\ money.parsed[1].cents > 0)
        => money.negated[1].cents = 0 - money.parsed[1].cents

\* C29: content is written to the cache only after it was parsed successfully
\* in the same attempt: whenever a cache entry changes, it is the entry of the
\* page being acquired, the attempt returns, and the content stored is an
\* order-list page with invoice links or an invoice the parser accepts, with
\* the attempt's result read from that content.
C29_CacheWrittenAfterParse ==
    [][\A k \in Keys :
          cache'[k] # cache[k] =>
            /\ k = cacheKey(ppc.url)
            /\ pc' = "ppc_return"
            /\ cache'[k] \notin {NoValue, WallHTML}
            /\ ppc.kind \in {"list", "invoice"}
            /\ ppc.kind = "list" =>
                  /\ Len(findInvoiceURLs(cache'[k])) # 0
                  /\ ppc'.result.links = findInvoiceURLs(cache'[k])
            /\ ppc.kind = "invoice" =>
                  /\ parseInvoiceHTML(cache'[k]).ok
                  /\ ppc'.result.orderId = parseInvoiceHTML(cache'[k]).id]_vars

C29_Witness ==
    /\ pc = "ppc_return"
    /\ ppc.kind = "list"
    /\ ppc.caught = "signin"
    /\ ppc.browserAttempts = 2
    /\ ppc.writes = 1
    /\ cache[cacheKey(ppc.url)] = SitePage(ppc.url)

StateAfter(j) == IF j < engine.i THEN engine.onToken[j + 1][2] ELSE engine.currentState

\* C31: createParser gives the tokens one at a time, in their order, to the current state; the
\* current state is replaced, and onStateChange(old, new) called, exactly for the tokens for which
\* the state returned a state different from the current one, never for a token that leaves it the same.
C31_StateReplacedOnlyOnChange ==
    pc = "engine" =>
        /\ Len(engine.onToken) = engine.i
        /\ \A j \in 1..engine.i :
              /\ engine.onToken[j][1] = engine.tokens[j]
              /\ StateAfter(j) = engine.returned[j]
              /\ (engine.returned[j] # engine.onToken[j][2])
                    <=> (\E c \in 1..Len(engine.onStateChange) :
                            engine.onStateChange[c] = <<j, engine.onToken[j][2], engine.returned[j]>>)
        /\ \A c \in 1..Len(engine.onStateChange) :
              /\ engine.onStateChange[c][1] \in 1..engine.i
              /\ engine.onStateChange[c][2] # engine.onStateChange[c][3]
              /\ \A d \in 1..Len(engine.onStateChange) : c < d => engine.onStateChange[c][1] < engine.onStateChange[d][1]

\* three tokens were fed; one changed the state and another, handled by a rule that returned the current state, did not
C31_Witness ==
    /\ pc = "engine"
    /\ engine.phase = "returned"
    /\ engine.i = MaxTokens
    /\ Len(engine.onStateChange) = 1
    /\ \E j \in 1..engine.i :
          /\ engine.ran # <<>>
          /\ engine.returned[j] = engine.onToken[j][2]
          /\ engine.args[engine.returned[j]][1].process = engine.returned[j]


\* the rules of the state the last token was given to, and that token
LastArgs == engine.args[engine.onToken[engine.i][2]]

LastToken == engine.tokens[engine.i]

\* rule k has a handler and matches the last token
Handles(k) == LastArgs[k].process # "ignore" /\ LastToken \in LastArgs[k].matches

\* rule k ends the evaluation of the last token: its handler returned true or a state
Ends(k) == Handles(k) /\ LastArgs[k].process \in EngineStates \cup {"true"}

\* C32 as stated: evaluation stops at the first rule that matches, so at most one handler of the
\* state runs for a token.
C32_AtMostOneHandler ==
    (pc = "engine" /\ engine.i > 0) => Len(engine.ran) <= 1

\* C32: the rules of a newParserState state are tried in declaration order, and evaluation stops at
\* the first matching rule whose handler returns true or a state; a matching rule marked ignore, or
\* whose handler returns false or nothing, lets the later rules be tried, so the handlers that run
\* for a token are those of the matching rules up to and including the first that ends evaluation.
C32_StopsAtFirstHandled ==
    (pc = "engine" /\ engine.i > 0) =>
        /\ \A a, b \in 1..Len(engine.ran) : a < b => engine.ran[a] < engine.ran[b]
        /\ \A k \in 1..Len(LastArgs) :
              (\E a \in 1..Len(engine.ran) : engine.ran[a] = k)
                  <=> (Handles(k) /\ \A h \in 1..(k - 1) : ~Ends(h))
        /\ engine.returned[engine.i] =
              IF \E k \in 1..Len(LastArgs) : Ends(k)
              THEN LET first == CHOOSE k \in 1..Len(LastArgs) : Ends(k) /\ \A h \in 1..(k - 1) : ~Ends(h)
                   IN IF LastArgs[first].process = "true" THEN engine.onToken[engine.i][2]
                      ELSE LastArgs[first].process
              ELSE engine.onToken[engine.i][2]

\* one token ran two handlers: the first matched and returned false, the second matched too
C32_Witness ==
    /\ pc = "engine"
    /\ engine.i > 0
    /\ engine.ran = <<1, 2>>
    /\ LastArgs[1].process = "false"
    /\ LastArgs[2].process = "s2"
    /\ engine.returned[engine.i] = "s2"


\* no rule of the parser's current state matches the token it is about to be given
NoRuleMatches ==
    \A k \in 1..Len(Rules(parser.state)) : ~Matches(Rules(parser.state)[k], parser.tokens[parser.i])

\* C33: a token that matches none of the current state's rules leaves the OrderBuilder as it was
\* and the parser in the same state, and raises no error: the parse goes on with the next token.
C33_UnmatchedTokenIgnored ==
    [][(pc = "parse_token" /\ parser.i <= Len(parser.tokens) /\ NoRuleMatches) =>
          /\ builder' = builder
          /\ builder'.error = Unset
          /\ parser'.state = parser.state
          /\ parser'.results = parser.results
          /\ parser'.i = parser.i + 1
          /\ pc' = "parse_token"]_vars

\* an online order without its 'Items Ordered' line: the item line was given to onlineOrder, which
\* has no rule for it, and the parser is still in onlineOrder with only id and date set
C33_Witness ==
    /\ pc = "parse_token"
    /\ parser.i = 4
    /\ parser.tokens[1].label = "Amazon.com - Order "
    /\ parser.tokens[2].label = "Order Placed: "
    /\ parser.tokens[3].label = "1 of: "
    /\ parser.state = "online_order"
    /\ builder.error = Unset
    /\ \A k \in 1..Len(Rules("online_order")) : ~Matches(Rules("online_order")[k], parser.tokens[3])


(***************************************************************************)
(* C34, C35: shipments and the shipping address                            *)
(***************************************************************************)
\* C34: the shipment a call writes to is the last of the list; a call creates a shipment only when
\* there is none or finalizeShipment() was called since the last one was created, and then exactly
\* one, however many finalizeShipment() calls came before; the shipments that exist are never
\* removed, reordered or, once they are not the last, changed.
C34_CurrentShipmentIsLast ==
    [][(pc = "builder" /\ builder'.calls = builder.calls + 1) =>
          LET n == Len(builder.shipments)
              m == Len(builder'.shipments)
          IN /\ m \in {n, n + 1}
             /\ \A s \in 1..(n - 1) : builder'.shipments[s] = builder.shipments[s]
             /\ m = n + 1 =>
                   /\ n = 0 \/ \E c \in 1..Len(builder.sinceCreated) :
                                  builder.sinceCreated[c] = "finalizeShipment"
                   /\ n > 0 => builder'.shipments[n] = builder.shipments[n]
                   /\ builder'.last.setter # "finalizeShipment"
             /\ (m = n /\ n > 0 /\ builder'.shipments[n] # builder.shipments[n]) =>
                   \A c \in 1..Len(builder.sinceCreated) :
                       builder.sinceCreated[c] # "finalizeShipment"]_vars

\* setItemName, finalizeShipment, finalizeShipment, setItemName: the second shipment was created
\* by the last call alone and holds its item, the first shipment keeping its own
C34_Witness ==
    /\ pc = "builder"
    /\ builder.error = Unset
    /\ Len(builder.shipments) = 2
    /\ builder.createdAfter = <<<<>>, <<"finalizeShipment", "finalizeShipment">>>>
    /\ Len(builder.shipments[1].items) = 1
    /\ Len(builder.shipments[2].items) = 1
    /\ builder.last.setter = "setItemName"
    /\ builder.calls = 4
    /\ builder.sinceCreated = <<>>


\* the parser is in the shipping state and its next token is matched by the last rule `.+` alone
GenericAddressToken ==
    /\ pc = "parse_token"
    /\ parser.i <= Len(parser.tokens)
    /\ parser.state = "online_order_shipping"
    /\ \A k \in 1..(Len(Rules(parser.state)) - 1) :
          ~Matches(Rules(parser.state)[k], parser.tokens[parser.i])
    /\ Matches(Rules(parser.state)[Len(Rules(parser.state))], parser.tokens[parser.i])

\* the address of the shipment the next shipment call writes to
CurrentAddress ==
    IF Len(builder.shipments) = 0 \/ builder.lastShipmentFinalized
    THEN [f \in AddressFields |-> Unset]
    ELSE LastShipment(builder).shippingAddress

\* the token goes to the first unset field of `order`, the others keeping their values; when none
\* of them is unset the parse ends with an error
AssignedInOrder(order) ==
    LET unset == {k \in 1..Len(order) : CurrentAddress[order[k]] = Unset}
        text == parser.tokens[parser.i].label \o parser.tokens[parser.i].value
    IN IF unset = {}
       THEN /\ builder'.error # Unset
            /\ Len(parser'.results) = Len(parser.results) + 1
            /\ parser'.results[Len(parser'.results)].error # Unset
       ELSE LET k == CHOOSE u \in unset : \A v \in unset : u <= v
            IN /\ builder'.error = Unset
               /\ LastShipment(builder').shippingAddress =
                     [CurrentAddress EXCEPT ![order[k]] = <<text>>]
               /\ parser'.state = parser.state

\* C35 as stated: the fixed order is address, city, state, zip, country.
C35_OrderWithoutName ==
    [][GenericAddressToken => AssignedInOrder(<<"address", "city", "state", "zip", "country">>)]_vars

\* C35: in the shipping state a token matched by no specific rule is assigned to the first still
\* unset field in the order name, address, city, state, zip, country, no field that is set being
\* overwritten; when all six are set such a token ends the parse with an error. After
\* 'Shipping Address: <name>' the name is set, so the first such token is the address; after
\* 'Ship to' it is the name.
C35_NextUnsetAddressField ==
    [][GenericAddressToken =>
          AssignedInOrder(<<"name", "address", "city", "state", "zip", "country">>)]_vars

\* after 'Ship to': the first two lines became name and address, the city, state and zip line was
\* taken by its own rule, the next line became the country and the line after that was an error
C35_Witness ==
    /\ pc = "parsed"
    /\ parser.tokens[1].label = "Brief content visible, double tap to read full content."
    /\ Len(parser.results) = 1
    /\ parser.results[1].error = <<"Unexpected shipping address value">>
    /\ Len(builder.shipments) = 1
    /\ builder.shipments[1].shippingAddress =
          [name |-> <<"123 Main St">>, address |-> <<"United States">>, city |-> <<"Seattle">>,
           state |-> <<"WA">>, zip |-> <<"98101">>, country |-> <<"United States">>]


(***************************************************************************)
(* C36: the tokenizer                                                       *)
(***************************************************************************)
\* C36: in what getContentChunks returns the merge rules are fully applied: no token but the last
\* ends with a colon and no token but the first begins with a comma.
C36_MergeRulesApplied ==
    (pc = "tokenizer" /\ tokenizer.phase = "returned") =>
        /\ \A j \in 1..(Len(tokenizer.chunks) - 1) :
              tokenizer.chunks[j][Len(tokenizer.chunks[j])] # ":"
        /\ \A j \in 2..Len(tokenizer.chunks) : tokenizer.chunks[j][1] # ","

\* 'a:' took the text of the next node with a space, ',a' inside a div was glued to it, the text of
\* the script was skipped, and the chunk after it stands alone
C36_Witness ==
    /\ pc = "tokenizer"
    /\ tokenizer.phase = "returned"
    /\ tokenizer.document = <<TextNode(<<" ", "a", " ", " ", ":", " ">>),
                             Element("div", <<TextNode(<<",", "a">>)>>),
                             Element("script", <<TextNode(<<"a", ":">>)>>)>>
    /\ tokenizer.chunks = <<<<"a", " ", ":", " ", ",", "a">>>>


(***************************************************************************)
(* C37: a per-year hook that returns nothing                                *)
(***************************************************************************)
\* C37: when the per-year hook returned nothing for a year, scrape() went on to scrape that year
\* with the cache allowed, and did not fail for want of an action.
C37_NoActionScrapesYear ==
    (build = "dist" /\ pc = "scrape_settled") =>
        \A i \in 1..Len(run.hooked) :
            options.onBeforeYearScrape[run.hooked[i]] = NoValue =>
                /\ err.kind # "unknown-action"
                /\ \E v \in 1..Len(run.visited) : run.visited[v] = YearURL(run.hooked[i])


\* C38: the cache is last-write-wins per key: checkCache(k) returns the value
\* the latest updateCache(k, v) wrote, whatever was written for k before.
C38_LastWriteWins ==
    (store.last.op = "checkCache" /\ store.written[store.last.key] # NoValue) =>
        store.last.returned = store.written[store.last.key]

\* The items of an order, as <<shipment, item>> positions.
ItemsOf(order) ==
    UNION {{<<k, i>> : i \in DOMAIN order.shipments[k].items} : k \in DOMAIN order.shipments}

\* C39: after saveOrder(order) the store holds exactly one order_items row per
\* item of the order, each attached to the shipments row of the shipment that
\* contains the item.
C39_OneRowPerItemInItsShipment ==
    store.last.op = "saveOrder" =>
        LET order == store.saved[1]
            rows == {r \in store.order_items : r.order_id = order.id}
        IN /\ Cardinality(rows) = Cardinality(ItemsOf(order))
           /\ \A r \in rows :
                 \E sh \in store.shipments, k \in DOMAIN order.shipments :
                    /\ sh.id = r.shipment_id
                    /\ sh.order_id = order.id
                    /\ sh.date = order.shipments[k].date
                    /\ \E i \in DOMAIN order.shipments[k].items :
                          order.shipments[k].items[i] = r.name


\* C40: when parsePageContent gives up after its retries, at most one of the
\* pages it opened for the URL is still open (the one the error carries);
\* every other page withBrowser created has been closed.
C40_AtMostOnePageLeftOpen ==
    (build = "dist" /\ pc = "scrape_settled" /\ GivesUp(err.attempt)) =>
        /\ ppc.openPages <= 1
        /\ ppc.openPages = 1 => err.hasPage

=============================================================================
